---- MODULE Spec2Model ----
(***************************************************************************)
(* A model of the vscode-dbt-runner extension: the profile store           *)
(* (ConfigManager), the command runner (DbtRunner) and the terminal        *)
(* hand-off.                                                               *)
(*                                                                         *)
(* Strings are sequences of atoms.  An atom is one character that the code *)
(* inspects (" ", tab, double quote, "/", "\", ":", a drive letter) or an   *)
(* indivisible word that holds none of those characters ("dev", "alice",   *)
(* "--target").  Every string operation of the code (trim, startsWith,     *)
(* includes, split, join, replace) is computed on these sequences.         *)
(***************************************************************************)
EXTENDS Integers, Sequences, FiniteSets, TLC

VARIABLES
    profileConfigs,     \* setting dbtRunner.profileConfigs (the persisted list)
    environments,       \* setting dbtRunner.environments
    dbtProjectPath,     \* setting dbtRunner.dbtProjectPath
    workspaceFolders,   \* vscode.workspace.workspaceFolders: <<>> when none is open
    autoSetupOnOpen,    \* setting dbtRunner.autoSetupOnOpen
    pyprojectToml,      \* the folders that hold a file pyproject.toml
    processEnv,         \* process.env, the ambient environment
    snowflakeAccounts,  \* setting dbtRunner.snowflakeAccounts, read by runPreCommit
    outputChannel,      \* lines of ProjectSetup.outputChannel
    terminal,           \* DbtRunner.terminal: <<>> is undefined, else <<the terminal>>
    flow,               \* flow[f]: position and locals of the flow running in slot f
    cmd                 \* inputs and outputs of the command assembler on its own

vars == <<profileConfigs, environments, dbtProjectPath, workspaceFolders, autoSetupOnOpen, pyprojectToml,
          processEnv, snowflakeAccounts, outputChannel, terminal, flow, cmd>>

-----------------------------------------------------------------------------
(* Bounds *)

NumFlows == 2           \* flows that can be suspended at a prompt at the same time
MaxPathLen == 3         \* atoms in a path handed to quotePath on its own

Flows == 1..NumFlows

-----------------------------------------------------------------------------
(* Strings *)

Undefined == << "<undefined>" >>     \* a dismissed prompt: no string holds this atom
NoMessage == "null"                  \* validateInput returning null

IsWhitespace(c) == c \in {" ", "\t"}

RECURSIVE TrimStart(_)
TrimStart(s) ==
    IF s # <<>> /\ IsWhitespace(Head(s)) THEN TrimStart(Tail(s)) ELSE s

RECURSIVE TrimEnd(_)
TrimEnd(s) ==
    IF s # <<>> /\ IsWhitespace(s[Len(s)])
    THEN TrimEnd(SubSeq(s, 1, Len(s) - 1))
    ELSE s

Trim(s) == TrimEnd(TrimStart(s))

StartsWith(s, p) == Len(s) >= Len(p) /\ SubSeq(s, 1, Len(p)) = p

Includes(s, c) == \E i \in 1..Len(s) : s[i] = c

UpperLetters == {"C", "D"}

\* value.match(/^[A-Z]:\\/)
MatchesDrivePrefix(s) ==
    Len(s) >= 3 /\ s[1] \in UpperLetters /\ s[2] = ":" /\ s[3] = "\\"

\* s.split(' '): cut at every single space, keeping empty pieces
RECURSIVE SplitSpace(_)
SplitSpace(s) ==
    IF ~Includes(s, " ") THEN <<s>>
    ELSE LET i == CHOOSE k \in 1..Len(s) :
                      s[k] = " " /\ \A j \in 1..(k - 1) : s[j] # " "
         IN  <<SubSeq(s, 1, i - 1)>> \o SplitSpace(SubSeq(s, i + 1, Len(s)))

\* parts.join(' ')
RECURSIVE JoinSpace(_)
JoinSpace(parts) ==
    IF parts = <<>> THEN <<>>
    ELSE IF Len(parts) = 1 THEN parts[1]
    ELSE parts[1] \o <<" ">> \o JoinSpace(Tail(parts))

-----------------------------------------------------------------------------
(* ConfigManager: the pure parts of addProfileConfig / removeProfileConfig *)

ValidateRequired(value, message) ==
    IF value = <<>> \/ Len(Trim(value)) = 0 THEN message ELSE NoMessage

ValidateProfileTarget(value) == ValidateRequired(value, "Profile target is required")

ValidateUser(value) == ValidateRequired(value, "Username is required")

ValidateKeyPath_NoAbsoluteCheck(value) ==
    IF value = <<>> \/ Len(Trim(value)) = 0
    THEN "Private key path is required"
    ELSE NoMessage

ValidateKeyPath(value) ==
    IF value = <<>> \/ Len(Trim(value)) = 0
    THEN "Private key path is required"
    ELSE IF ~StartsWith(value, <<"/">>) /\ ~MatchesDrivePrefix(value)
         THEN "Please provide an absolute path"
         ELSE NoMessage

ProfileConfig(profileTarget, user, privateKeyPath, privateKeyPassphrase) ==
    [profileTarget |-> profileTarget, user |-> user,
     privateKeyPath |-> privateKeyPath,
     privateKeyPassphrase |-> privateKeyPassphrase]

NewConfig(profileTarget, user, privateKeyPath, privateKeyPassphrase) ==
    ProfileConfig(Trim(profileTarget), Trim(user), Trim(privateKeyPath),
                  privateKeyPassphrase)

\* configs.findIndex(cfg => cfg.profileTarget === name), 1-based; 0 is JS's -1
FindIndex(configs, name) ==
    IF \E i \in 1..Len(configs) : configs[i].profileTarget = name
    THEN CHOOSE i \in 1..Len(configs) :
             /\ configs[i].profileTarget = name
             /\ \A j \in 1..(i - 1) : configs[j].profileTarget # name
    ELSE 0

OverwriteConfirmed_UnlessNo(overwrite) == overwrite # "No"

\* overwrite !== 'Yes' returns; the write happens only on 'Yes'
OverwriteConfirmed(overwrite) == overwrite = "Yes"

ApplyNewConfig_AlwaysPush(configs, existingIndex, newConfig) ==
    Append(configs, newConfig)

\* configs[existingIndex] = newConfig, or configs.push(newConfig)
ApplyNewConfig(configs, existingIndex, newConfig) ==
    IF existingIndex > 0
    THEN [configs EXCEPT ![existingIndex] = newConfig]
    ELSE Append(configs, newConfig)

FilterOut_First(configs, selected) == Tail(configs)

\* configs.filter(cfg => cfg.profileTarget !== selected)
RECURSIVE FilterOut(_, _)
FilterOut(configs, selected) ==
    IF configs = <<>> THEN <<>>
    ELSE IF Head(configs).profileTarget # selected
         THEN <<Head(configs)>> \o FilterOut(Tail(configs), selected)
         ELSE FilterOut(Tail(configs), selected)

ProfileTargets(configs) == [i \in 1..Len(configs) |-> configs[i].profileTarget]

-----------------------------------------------------------------------------
(* Flows: one invocation of a command, suspended between its prompts *)

NoConfig == ProfileConfig(<<>>, <<>>, <<>>, <<>>)

IdleFlow ==
    [kind |-> "none", pc |-> "idle", outcome |-> "none", message |-> NoMessage,
     profileTarget |-> <<>>, user |-> <<>>, privateKeyPath |-> <<>>,
     newConfig |-> NoConfig, configs |-> <<>>, existingIndex |-> 0,
     selected |-> <<>>,
     workspaceRoot |-> <<>>, candidates |-> <<>>, environment |-> <<>>,
     dbtCommand |-> <<>>, additionalParams |-> <<>>,
     matchingConfig |-> <<>>, passphrase |-> <<>>, profileConfig |-> <<>>,
     fullDbtPath |-> <<>>, env |-> <<>>, fullCommand |-> <<>>, child |-> 0,
     panel |-> <<>>,
     includeCicd |-> FALSE, accounts |-> <<>>, selectedAccount |-> <<>>,
     created |-> <<>>, progress |-> <<>>, auto |-> FALSE]

Startable(f) ==
    /\ flow[f].pc \in {"idle", "done"}
    /\ \A g \in Flows : ~(flow[g].pc = "awaitAdd" /\ flow[g].child = f)

\* the flow returns: what it last showed stays on screen
Finished(f, outcome, message) ==
    [IdleFlow EXCEPT !.kind = flow[f].kind, !.pc = "done",
                     !.outcome = outcome, !.message = message]

StoreUnchanged == UNCHANGED profileConfigs

RunnerUnchanged ==
    UNCHANGED <<environments, dbtProjectPath, workspaceFolders, autoSetupOnOpen, pyprojectToml, snowflakeAccounts,
                outputChannel, processEnv,
                terminal, cmd>>

-----------------------------------------------------------------------------
(* ConfigManager.addProfileConfig *)

AddedMessage(existingIndex) ==
    IF existingIndex > 0 THEN "Profile configuration has been updated successfully!"
    ELSE "Profile configuration has been added successfully!"

\* the first prompt of addProfileConfig is shown
AddBegin(f) ==
    [IdleFlow EXCEPT !.kind = "add", !.pc = "addTarget"]

AddStart(f) ==
    /\ Startable(f)
    /\ flow' = [flow EXCEPT ![f] = AddBegin(f)]
    /\ StoreUnchanged /\ RunnerUnchanged

\* showInputBox for the profile target: value is what the user submits
AddTarget(f, value) ==
    /\ flow[f].pc = "addTarget"
    /\ flow' = [flow EXCEPT ![f] =
          IF value = Undefined THEN Finished(f, "cancelled", NoMessage)
          ELSE IF ValidateProfileTarget(value) # NoMessage
               THEN [@ EXCEPT !.message = ValidateProfileTarget(value)]
          ELSE IF value = <<>> THEN Finished(f, "cancelled", NoMessage)
          ELSE [@ EXCEPT !.pc = "addUser", !.profileTarget = value,
                         !.message = NoMessage]]
    /\ StoreUnchanged /\ RunnerUnchanged

AddUser(f, value) ==
    /\ flow[f].pc = "addUser"
    /\ flow' = [flow EXCEPT ![f] =
          IF value = Undefined THEN Finished(f, "cancelled", NoMessage)
          ELSE IF ValidateUser(value) # NoMessage
               THEN [@ EXCEPT !.message = ValidateUser(value)]
          ELSE IF value = <<>> THEN Finished(f, "cancelled", NoMessage)
          ELSE [@ EXCEPT !.pc = "addKeyPath", !.user = value,
                         !.message = NoMessage]]
    /\ StoreUnchanged /\ RunnerUnchanged

AddKeyPath(f, value) ==
    /\ flow[f].pc = "addKeyPath"
    /\ flow' = [flow EXCEPT ![f] =
          IF value = Undefined THEN Finished(f, "cancelled", NoMessage)
          ELSE IF ValidateKeyPath(value) # NoMessage
               THEN [@ EXCEPT !.message = ValidateKeyPath(value)]
          ELSE IF value = <<>> THEN Finished(f, "cancelled", NoMessage)
          ELSE [@ EXCEPT !.pc = "addInclude", !.privateKeyPath = value,
                         !.message = NoMessage]]
    /\ StoreUnchanged /\ RunnerUnchanged

\* lines 512-542: build newConfig, read the store, then either ask before
\* overwriting or push and update at once
AddCommit(f, privateKeyPassphrase) ==
    LET newConfig == NewConfig(flow[f].profileTarget, flow[f].user,
                               flow[f].privateKeyPath, privateKeyPassphrase)
        configs == profileConfigs
        existingIndex == FindIndex(configs, newConfig.profileTarget)
    IN  IF existingIndex > 0
        THEN /\ flow' = [flow EXCEPT ![f] =
                   [@ EXCEPT !.pc = "addOverwrite", !.newConfig = newConfig,
                             !.configs = configs, !.existingIndex = existingIndex,
                             !.profileTarget = <<>>, !.user = <<>>,
                             !.privateKeyPath = <<>>,
                             !.message = "A configuration already exists. Do you want to overwrite it?"]]
             /\ StoreUnchanged
        ELSE /\ profileConfigs' = ApplyNewConfig(configs, existingIndex, newConfig)
             /\ flow' = [flow EXCEPT ![f] =
                   [Finished(f, "added", AddedMessage(existingIndex))
                       EXCEPT !.newConfig = newConfig]]

\* showQuickPick: store the passphrase in settings?
AddInclude(f, choice) ==
    /\ flow[f].pc = "addInclude"
    /\ choice \in {"dismissed", "No", "Yes"}
    /\ CASE choice = "dismissed" ->
              /\ flow' = [flow EXCEPT ![f] = Finished(f, "cancelled", NoMessage)]
              /\ StoreUnchanged
         [] choice = "Yes" ->
              /\ flow' = [flow EXCEPT ![f] = [@ EXCEPT !.pc = "addPassphrase"]]
              /\ StoreUnchanged
         [] choice = "No" -> AddCommit(f, <<>>)
    /\ RunnerUnchanged

PassphraseDismissed_Never(passphrase) == FALSE

\* line 505: passphrase === undefined
PassphraseDismissed(passphrase) == passphrase = Undefined

AddPassphrase(f, value) ==
    /\ flow[f].pc = "addPassphrase"
    /\ IF PassphraseDismissed(value)
       THEN /\ flow' = [flow EXCEPT ![f] = Finished(f, "cancelled", NoMessage)]
            /\ StoreUnchanged
       ELSE AddCommit(f, value)
    /\ RunnerUnchanged

\* showWarningMessage(..., 'Yes', 'No'): overwrite is "Yes", "No" or "dismissed"
AddOverwrite(f, overwrite) ==
    /\ flow[f].pc = "addOverwrite"
    /\ overwrite \in {"Yes", "No", "dismissed"}
    /\ IF ~OverwriteConfirmed(overwrite)
       THEN /\ flow' = [flow EXCEPT ![f] = Finished(f, "declined", NoMessage)]
            /\ StoreUnchanged
       ELSE /\ profileConfigs' = ApplyNewConfig(flow[f].configs,
                                      flow[f].existingIndex, flow[f].newConfig)
            /\ flow' = [flow EXCEPT ![f] =
                  [Finished(f, "updated", AddedMessage(flow[f].existingIndex))
                      EXCEPT !.newConfig = flow[f].newConfig]]
    /\ RunnerUnchanged

-----------------------------------------------------------------------------
(* ConfigManager.listProfileConfigs *)

ListEmptyMessage ==
    "No profile configurations found. Use \"DBT Runner: Add Profile Configuration\" to add one."

Placeholder == <<"***">>
PromptAtRuntime == <<"(prompt at runtime)">>

RenderPassphrase_Literal(cfg) == cfg.privateKeyPassphrase

\* line 632: cfg.privateKeyPassphrase ? '***' : '(prompt at runtime)'
RenderPassphrase(cfg) ==
    IF cfg.privateKeyPassphrase # <<>> THEN Placeholder ELSE PromptAtRuntime

\* lines 628-633: the block of one record
RenderConfig(cfg) ==
    <<"<account>">> \o cfg.profileTarget
    \o <<"User:">> \o cfg.user
    \o <<"Private Key:">> \o cfg.privateKeyPath
    \o <<"Passphrase:">> \o RenderPassphrase(cfg)

\* lines 595-637: the page, one block per record in stored order
RECURSIVE RenderConfigs(_)
RenderConfigs(configs) ==
    IF configs = <<>> THEN <<>>
    ELSE RenderConfig(Head(configs)) \o RenderConfigs(Tail(configs))

RenderReport(configs) ==
    <<"Configured Profile Targets">> \o RenderConfigs(configs)

\* the whole command: it reads the list, then shows a message or the page
ListProfileConfigs(f) ==
    /\ Startable(f)
    /\ LET configs == profileConfigs
       IN  flow' = [flow EXCEPT ![f] =
              IF Len(configs) = 0
              THEN [IdleFlow EXCEPT !.kind = "list", !.pc = "done",
                                    !.outcome = "empty",
                                    !.message = ListEmptyMessage]
              ELSE [IdleFlow EXCEPT !.kind = "list", !.pc = "done",
                                    !.outcome = "listed",
                                    !.configs = configs,
                                    !.panel = RenderReport(configs)]]
    /\ StoreUnchanged /\ RunnerUnchanged

-----------------------------------------------------------------------------
(* ConfigManager.removeProfileConfig *)

RemoveStart(f) ==
    /\ Startable(f)
    /\ flow' = [flow EXCEPT ![f] =
          IF Len(profileConfigs) = 0
          THEN [Finished(f, "empty", "No profile configurations found.")
                   EXCEPT !.kind = "remove"]
          ELSE [IdleFlow EXCEPT !.kind = "remove", !.pc = "removeSelect",
                                !.configs = profileConfigs]]
    /\ StoreUnchanged /\ RunnerUnchanged

\* showQuickPick over the names read at the start
RemoveSelect(f, selected) ==
    /\ flow[f].pc = "removeSelect"
    /\ \/ selected = Undefined
       \/ \E i \in 1..Len(flow[f].configs) :
              selected = ProfileTargets(flow[f].configs)[i]
    /\ flow' = [flow EXCEPT ![f] =
          IF selected = Undefined \/ selected = <<>>
          THEN Finished(f, "cancelled", NoMessage)
          ELSE [@ EXCEPT !.pc = "removeConfirm", !.selected = selected]]
    /\ StoreUnchanged /\ RunnerUnchanged

RemoveConfirm(f, confirm) ==
    /\ flow[f].pc = "removeConfirm"
    /\ confirm \in {"Yes", "No", "dismissed"}
    /\ IF confirm # "Yes"
       THEN /\ flow' = [flow EXCEPT ![f] = Finished(f, "declined", NoMessage)]
            /\ StoreUnchanged
       ELSE /\ profileConfigs' = FilterOut(flow[f].configs, flow[f].selected)
            /\ flow' = [flow EXCEPT ![f] =
                  Finished(f, "removed", "Profile configuration has been removed.")]
    /\ RunnerUnchanged

-----------------------------------------------------------------------------
(* types.ts and the pure parts of DbtRunner *)

RECURSIVE ReplaceAll(_, _, _)
ReplaceAll(s, from, to) ==
    IF s = <<>> THEN <<>>
    ELSE <<IF Head(s) = from THEN to ELSE Head(s)>> \o ReplaceAll(Tail(s), from, to)

NormalizePathForPython(filePath) ==
    IF filePath = <<>> \/ Trim(filePath) = <<>>
    THEN filePath
    ELSE ReplaceAll(filePath, "\\", "/")

\* the pieces of p between its "/" atoms, empty pieces kept
RECURSIVE SplitSlash(_)
SplitSlash(p) ==
    IF ~Includes(p, "/") THEN <<p>>
    ELSE LET i == CHOOSE k \in 1..Len(p) :
                      p[k] = "/" /\ \A j \in 1..(k - 1) : p[j] # "/"
         IN  <<SubSeq(p, 1, i - 1)>> \o SplitSlash(SubSeq(p, i + 1, Len(p)))

RECURSIVE JoinSlash(_)
JoinSlash(parts) ==
    IF parts = <<>> THEN <<>>
    ELSE IF Len(parts) = 1 THEN parts[1]
    ELSE parts[1] \o <<"/">> \o JoinSlash(Tail(parts))

\* posix normalizeString: drop "" and ".", let ".." take back one segment
RECURSIVE NormalizeSegments(_, _, _)
NormalizeSegments(segments, kept, isAbsolute) ==
    IF segments = <<>> THEN kept
    ELSE LET seg == Head(segments)
             rest == Tail(segments)
         IN  IF seg = <<>> \/ seg = <<".">>
             THEN NormalizeSegments(rest, kept, isAbsolute)
             ELSE IF seg = <<"..">>
             THEN IF kept # <<>> /\ kept[Len(kept)] # <<"..">>
                  THEN NormalizeSegments(rest, SubSeq(kept, 1, Len(kept) - 1),
                                         isAbsolute)
                  ELSE IF isAbsolute
                       THEN NormalizeSegments(rest, kept, isAbsolute)
                       ELSE NormalizeSegments(rest, Append(kept, seg), isAbsolute)
             ELSE NormalizeSegments(rest, Append(kept, seg), isAbsolute)

\* path.posix.normalize
PathNormalize(p) ==
    IF p = <<>> THEN <<".">>
    ELSE LET isAbsolute == Head(p) = "/"
             trailing == p[Len(p)] = "/"
             body == JoinSlash(NormalizeSegments(SplitSlash(p), <<>>, isAbsolute))
         IN  IF body = <<>>
             THEN (IF isAbsolute THEN <<"/">>
                   ELSE IF trailing THEN <<".", "/">> ELSE <<".">>)
             ELSE (IF isAbsolute THEN <<"/">> ELSE <<>>) \o body
                  \o (IF trailing THEN <<"/">> ELSE <<>>)

\* path.join(a, b) on a posix host: empty arguments are skipped
PathJoin(a, b) ==
    IF a = <<>> /\ b = <<>> THEN <<".">>
    ELSE IF a = <<>> THEN PathNormalize(b)
    ELSE IF b = <<>> THEN PathNormalize(a)
    ELSE PathNormalize(a \o <<"/">> \o b)

QuotePath_Always(pathString) ==
    IF Includes(pathString, " ")
    THEN <<"\"">> \o pathString \o <<"\"">>
    ELSE pathString

QuotePath(pathString) ==
    IF Includes(pathString, " ") /\ ~StartsWith(pathString, <<"\"">>)
    THEN <<"\"">> \o pathString \o <<"\"">>
    ELSE pathString

\* {...base, ...over}
Spread(base, over) ==
    [k \in (DOMAIN base) \cup (DOMAIN over) |->
        IF k \in DOMAIN over THEN over[k] ELSE base[k]]

ProfileEnv(profileConfig) ==
    [DBT_USER |-> profileConfig.user,
     DBT_PVK_PATH |-> NormalizePathForPython(profileConfig.privateKeyPath),
     DBT_PVK_PASS |-> IF profileConfig.privateKeyPassphrase # <<>>
                      THEN profileConfig.privateKeyPassphrase ELSE <<>>]

BuildEnv_AmbientWins(env, profileConfig) ==
    [k \in (DOMAIN env) \cup {"DBT_USER", "DBT_PVK_PATH", "DBT_PVK_PASS"} |->
        IF k \in DOMAIN env THEN env[k] ELSE ProfileEnv(profileConfig)[k]]

\* lines 378-383
BuildEnv(env, profileConfig) == Spread(env, ProfileEnv(profileConfig))

BuildCommandParts_ExtraFirst(fullDbtPath, environment, dbtCommand, additionalParams) ==
    <<<<"poetry">>, <<"run">>, <<"dbt">>>> \o SplitSpace(dbtCommand)
    \o (IF Trim(additionalParams) # <<>>
        THEN SplitSpace(Trim(additionalParams)) ELSE <<>>)
    \o <<<<"--project-dir">>, QuotePath(fullDbtPath)>>
    \o <<<<"--profiles-dir">>, QuotePath(PathJoin(fullDbtPath, <<"profiles">>))>>
    \o <<<<"--target">>, environment>>

\* lines 385-393
BuildCommandParts(fullDbtPath, environment, dbtCommand, additionalParams) ==
    <<<<"poetry">>, <<"run">>, <<"dbt">>>> \o SplitSpace(dbtCommand)
    \o <<<<"--project-dir">>, QuotePath(fullDbtPath)>>
    \o <<<<"--profiles-dir">>, QuotePath(PathJoin(fullDbtPath, <<"profiles">>))>>
    \o <<<<"--target">>, environment>>
    \o (IF Trim(additionalParams) # <<>>
        THEN SplitSpace(Trim(additionalParams)) ELSE <<>>)

\* line 395
FullCommand(fullDbtPath, environment, dbtCommand, additionalParams) ==
    JoinSpace(BuildCommandParts(fullDbtPath, environment, dbtCommand,
                                additionalParams))

\* the labels of selectDbtCommand
DbtCommands ==
    <<<<"run">>, <<"build">>, <<"test">>, <<"seed">>, <<"snapshot">>,
      <<"compile">>, <<"debug">>, <<"deps">>, <<"clean">>,
      <<"docs", " ", "generate">>, <<"docs", " ", "serve">>,
      <<"source", " ", "freshness">>>>

\* configs.find(cfg => cfg.profileTarget === environment): <<>> or <<the record>>
FindConfig_First(configs, environment) ==
    IF configs = <<>> THEN <<>> ELSE <<configs[1]>>

FindConfig(configs, environment) ==
    IF FindIndex(configs, environment) = 0 THEN <<>>
    ELSE <<configs[FindIndex(configs, environment)]>>

NoConfigs_Never(configs) == FALSE

\* configs.length === 0
NoConfigs(configs) == Len(configs) = 0

PassphraseGiven_AnyString(passphrase) == passphrase # Undefined

PassphraseGiven_Always(passphrase) == TRUE

\* !passphrase: undefined and '' are both falsy
PassphraseGiven(passphrase) == passphrase # Undefined /\ passphrase # <<>>

WithPassphrase_Stored(matchingConfig, passphrase) == matchingConfig

\* {...matchingConfig, privateKeyPassphrase: passphrase}
WithPassphrase(matchingConfig, passphrase) ==
    [matchingConfig EXCEPT !.privateKeyPassphrase = passphrase]

NeedsNewTerminal_OnlyFirst(held) == held = <<>>

\* !this.terminal || this.terminal.exitStatus !== undefined
NeedsNewTerminal(held) == held = <<>> \/ held[1].exited

-----------------------------------------------------------------------------
(* DbtRunner.runDbtCommand / runProjectEvaluator *)

NoWorkspaceMessage_None == NoMessage

NoWorkspaceMessage == "No workspace folder open"
NoConfigsMessage ==
    "No profile configurations found. Would you like to configure one now?"
NoMatchMessage ==
    "No configuration found for profile target. Would you like to configure it now?"

EvaluatorCommand == <<"build">>
EvaluatorParams == <<"--selector", " ", "dbt_project_evaluator">>

\* lines 374-414: build the environment and the command line, create a
\* terminal or reuse the held one, send the text; the flow then returns
\* locals: the flow's variables at the call
ExecuteDbtCommand(f, locals, profileConfig) ==
    LET fullDbtPath == PathJoin(locals.workspaceRoot, dbtProjectPath)
        env == BuildEnv(processEnv, profileConfig)
        fullCommand == FullCommand(fullDbtPath, locals.environment,
                                   locals.dbtCommand, locals.additionalParams)
        sent == [text |-> fullCommand, cwd |-> fullDbtPath, env |-> env]
    IN  /\ terminal' = IF NeedsNewTerminal(terminal)
                       THEN <<[cwd |-> fullDbtPath, env |-> env,
                               exited |-> FALSE, sent |-> <<sent>>]>>
                       ELSE <<[terminal[1] EXCEPT !.sent = <<sent>>]>>
        /\ flow' = [flow EXCEPT ![f] =
              [locals EXCEPT !.pc = "done", !.outcome = "sent", !.message = NoMessage,
                        !.profileConfig = <<profileConfig>>,
                        !.fullDbtPath = fullDbtPath, !.env = env,
                        !.fullCommand = fullCommand]]

\* lines 319-365 up to the first prompt of getProfileConfig, and what follows
\* a stored passphrase
GetProfileConfig(f, environment, dbtCommand, additionalParams) ==
    LET configs == profileConfigs
        matchingConfig == FindConfig(configs, environment)
        here == [flow[f] EXCEPT !.configs = configs,
                                !.environment = environment,
                                !.dbtCommand = dbtCommand,
                                !.additionalParams = additionalParams,
                                !.candidates = <<>>]
    IN  IF NoConfigs(configs)
        THEN /\ flow' = [flow EXCEPT ![f] =
                   [here EXCEPT !.pc = "warnNoConfigs", !.message = NoConfigsMessage]]
             /\ UNCHANGED terminal
        ELSE IF matchingConfig = <<>>
        THEN /\ flow' = [flow EXCEPT ![f] =
                   [here EXCEPT !.pc = "warnNoMatch", !.message = NoMatchMessage]]
             /\ UNCHANGED terminal
        ELSE IF matchingConfig[1].privateKeyPassphrase = <<>>
        THEN /\ flow' = [flow EXCEPT ![f] =
                   [here EXCEPT !.pc = "passphrase",
                                !.matchingConfig = matchingConfig]]
             /\ UNCHANGED terminal
        ELSE ExecuteDbtCommand(f,
                 [here EXCEPT !.matchingConfig = matchingConfig,
                              !.passphrase = matchingConfig[1].privateKeyPassphrase],
                 WithPassphrase(matchingConfig[1],
                                matchingConfig[1].privateKeyPassphrase))

SettingsUnchanged ==
    UNCHANGED <<profileConfigs, environments, dbtProjectPath, workspaceFolders, autoSetupOnOpen, pyprojectToml, snowflakeAccounts,
                outputChannel,
                processEnv, cmd>>

\* kind is "run" (runDbtCommand) or "eval" (runProjectEvaluator)
RunStart(f, kind) ==
    /\ Startable(f)
    /\ kind \in {"run", "eval"}
    /\ flow' = [flow EXCEPT ![f] =
          IF workspaceFolders = <<>>
          THEN [IdleFlow EXCEPT !.kind = kind, !.pc = "done", !.outcome = "error",
                                !.message = NoWorkspaceMessage]
          ELSE [IdleFlow EXCEPT !.kind = kind, !.pc = "pickEnvironment",
                                !.workspaceRoot = workspaceFolders[1],
                                !.candidates = environments]]
    /\ UNCHANGED terminal
    /\ SettingsUnchanged

\* selectEnvironment's quick pick over the labels read when it was shown
RunPickEnvironment(f, selected) ==
    /\ flow[f].pc = "pickEnvironment"
    /\ \/ selected = Undefined
       \/ \E i \in 1..Len(flow[f].candidates) : selected = flow[f].candidates[i]
    /\ IF selected = Undefined \/ selected = <<>>
       THEN /\ flow' = [flow EXCEPT ![f] = Finished(f, "cancelled", NoMessage)]
            /\ UNCHANGED terminal
       ELSE IF flow[f].kind = "run"
       THEN /\ flow' = [flow EXCEPT ![f] =
                  [@ EXCEPT !.pc = "pickCommand", !.environment = selected,
                            !.candidates = <<>>]]
            /\ UNCHANGED terminal
       ELSE GetProfileConfig(f, selected, EvaluatorCommand, EvaluatorParams)
    /\ SettingsUnchanged

RunPickCommand(f, selected) ==
    /\ flow[f].pc = "pickCommand"
    /\ \/ selected = Undefined
       \/ \E i \in 1..Len(DbtCommands) : selected = DbtCommands[i]
    /\ flow' = [flow EXCEPT ![f] =
          IF selected = Undefined \/ selected = <<>>
          THEN Finished(f, "cancelled", NoMessage)
          ELSE [@ EXCEPT !.pc = "additionalParams", !.dbtCommand = selected]]
    /\ UNCHANGED terminal
    /\ SettingsUnchanged

ParamsDismissed_IfEmpty(params) == params = Undefined \/ params = <<>>

\* line 228: additionalParams === undefined
ParamsDismissed(params) == params = Undefined

\* getAdditionalParameters: only a dismissed box (undefined) ends the flow
RunAdditionalParams(f, params) ==
    /\ flow[f].pc = "additionalParams"
    /\ IF ParamsDismissed(params)
       THEN /\ flow' = [flow EXCEPT ![f] = Finished(f, "cancelled", NoMessage)]
            /\ UNCHANGED terminal
       ELSE GetProfileConfig(f, flow[f].environment, flow[f].dbtCommand, params)
    /\ SettingsUnchanged

\* 'Yes' opens the settings editor; getProfileConfig returns undefined either way
RunWarnNoConfigs(f, answer) ==
    /\ flow[f].pc = "warnNoConfigs"
    /\ answer \in {"Yes", "No", "dismissed"}
    /\ flow' = [flow EXCEPT ![f] = Finished(f, "notfound", flow[f].message)]
    /\ UNCHANGED terminal
    /\ SettingsUnchanged

\* 'Yes' runs dbt-runner.addProfileConfig and waits for it; the add flow takes
\* the first free slot (which slot it is makes no difference to the program)
RunWarnNoMatch(f, answer) ==
    /\ flow[f].pc = "warnNoMatch"
    /\ answer \in {"Yes", "No", "dismissed"}
    /\ IF answer = "Yes"
       THEN \E g \in Flows \ {f} :
               /\ Startable(g)
               /\ \A h \in Flows \ {f} : Startable(h) => g <= h
               /\ flow' = [flow EXCEPT ![f] = [@ EXCEPT !.pc = "awaitAdd",
                                                        !.child = g],
                                       ![g] = AddBegin(g)]
       ELSE flow' = [flow EXCEPT ![f] = Finished(f, "notfound", flow[f].message)]
    /\ UNCHANGED terminal
    /\ SettingsUnchanged

\* the add flow started from the warning has returned
RunAddReturned(f) ==
    /\ flow[f].pc = "awaitAdd"
    /\ flow[flow[f].child].pc = "done"
    /\ flow' = [flow EXCEPT ![f] = Finished(f, "notfound", flow[f].message)]
    /\ UNCHANGED terminal
    /\ SettingsUnchanged

\* the masked input box of getProfileConfig
RunPassphrase(f, passphrase) ==
    /\ flow[f].pc = "passphrase"
    /\ IF ~PassphraseGiven(passphrase)
       THEN /\ flow' = [flow EXCEPT ![f] =
                  [Finished(f, "notfound", NoMessage)
                      EXCEPT !.configs = flow[f].configs,
                             !.environment = flow[f].environment,
                             !.matchingConfig = flow[f].matchingConfig]]
            /\ UNCHANGED terminal
       ELSE ExecuteDbtCommand(f, [flow[f] EXCEPT !.passphrase = passphrase],
                WithPassphrase(flow[f].matchingConfig[1], passphrase))
    /\ SettingsUnchanged

-----------------------------------------------------------------------------
(* The host and the user, outside the flows *)

\* the user closes the runner's terminal, or its shell exits
TerminalExit ==
    /\ terminal # <<>>
    /\ ~terminal[1].exited
    /\ terminal' = <<[terminal[1] EXCEPT !.exited = TRUE]>>
    /\ UNCHANGED <<profileConfigs, environments, dbtProjectPath, workspaceFolders, autoSetupOnOpen, pyprojectToml, snowflakeAccounts,
                   outputChannel,
                   processEnv, flow, cmd>>

\* the user edits dbtRunner.dbtProjectPath in the settings
ChangeDbtProjectPath(value) ==
    /\ value # dbtProjectPath
    /\ dbtProjectPath' = value
    /\ UNCHANGED <<profileConfigs, environments, workspaceFolders, autoSetupOnOpen, pyprojectToml, snowflakeAccounts,
                   outputChannel, processEnv,
                   terminal, flow, cmd>>

\* the user edits dbtRunner.environments in the settings
ChangeEnvironments(value) ==
    /\ value # environments
    /\ environments' = value
    /\ UNCHANGED <<profileConfigs, dbtProjectPath, workspaceFolders,
                   autoSetupOnOpen, pyprojectToml, snowflakeAccounts,
                   outputChannel, processEnv, terminal, flow, cmd>>

-----------------------------------------------------------------------------
(* quotePath and the command assembly on their own *)

NoCmd ==
    [op |-> "none", pathString |-> <<>>, quoted |-> <<>>, requoted |-> <<>>,
     workspaceRoot |-> <<>>, dbtProjectPath |-> <<>>, fullDbtPath |-> <<>>,
     environment |-> <<>>, dbtCommand |-> <<>>, additionalParams |-> <<>>,
     fullCommand |-> <<>>]

\* quotePath(pathString), and quotePath of its result; one call per behaviour
CmdQuotePath(pathString) ==
    /\ cmd.op = "none"
    /\ cmd' = [NoCmd EXCEPT !.op = "quotePath", !.pathString = pathString,
                            !.quoted = QuotePath(pathString),
                            !.requoted = QuotePath(QuotePath(pathString))]
    /\ UNCHANGED <<profileConfigs, environments, dbtProjectPath, workspaceFolders, autoSetupOnOpen, pyprojectToml, snowflakeAccounts,
                   outputChannel,
                   processEnv, terminal, flow>>

\* lines 374-395 of executeDbtCommand for one choice of its inputs
CmdBuild(workspaceRoot, projectPath, environment, dbtCommand, additionalParams) ==
    LET fullDbtPath == PathJoin(workspaceRoot, projectPath)
    IN  /\ cmd.op = "none"
        /\ cmd' = [NoCmd EXCEPT !.op = "build", !.workspaceRoot = workspaceRoot,
                       !.dbtProjectPath = projectPath, !.fullDbtPath = fullDbtPath,
                       !.environment = environment, !.dbtCommand = dbtCommand,
                       !.additionalParams = additionalParams,
                       !.fullCommand = FullCommand(fullDbtPath, environment,
                                           dbtCommand, additionalParams)]
        /\ UNCHANGED <<profileConfigs, environments, dbtProjectPath,
                       workspaceFolders, autoSetupOnOpen, pyprojectToml, snowflakeAccounts, outputChannel, processEnv, terminal, flow>>

-----------------------------------------------------------------------------
(* ProjectSetup *)

SetupCompleteMessage == "DBT project setup complete!"
LintCompleteMessage == "Pre-commit checks complete!"
NoAccountsMessage ==
    "No Snowflake accounts configured. Would you like to configure one now?"

PoetryLock == <<"poetry", " ", "lock">>
PoetryInstall == <<"poetry", " ", "install">>
PoetryInstallCicd == <<"poetry", " ", "install", " ", "--with", " ", "cicd">>
DbtDeps == <<"poetry", " ", "run", " ", "dbt", " ", "deps">>
PreCommit ==
    <<"poetry", " ", "run", " ", "pre-commit", " ", "run", " ", "--all-files">>

InstallCmd_AlwaysCicd(includeCicd) == PoetryInstallCicd

\* line 54
InstallCmd(includeCicd) == IF includeCicd THEN PoetryInstallCicd ELSE PoetryInstall

\* everything but the flows and the output channel
SetupFrame ==
    UNCHANGED <<profileConfigs, environments, dbtProjectPath, workspaceFolders, autoSetupOnOpen, pyprojectToml,
                processEnv, snowflakeAccounts, terminal, cmd>>

\* progress.report({ increment, message })
Report(increment, message) == [increment |-> increment, message |-> message]

\* lines 172-179: a terminal of its own for every command; env is <<>> for
\* undefined, else <<the environment>>; running: the shell is still at it
NewSetupTerminal(cwd, command, env) ==
    [cwd |-> cwd, env |-> env, sent |-> <<command>>, running |-> TRUE,
     failed |-> FALSE]

RECURSIVE SumIncrements(_)
SumIncrements(reports) ==
    IF reports = <<>> THEN 0
    ELSE Head(reports).increment + SumIncrements(Tail(reports))

\* what the notification shows after these reports: vscode.Progress sums the
\* increments it is given until 100 is reached
ProgressShown(reports) ==
    IF SumIncrements(reports) > 100 THEN 100 ELSE SumIncrements(reports)

\* lines 169-170
RunLines(cwd, command) ==
    <<<<"Running: ", command>>, <<"Working directory: ", cwd>>>>

\* runCommandWithEnv up to the start of its timer, as seen from flow record r
RunCommandWithEnv(r, cwd, command, env) ==
    [r EXCEPT !.created = Append(@, NewSetupTerminal(cwd, command, env))]

\* lines 12-21: setupProject up to its quick pick, called with the locals r
\* of its caller
SetupProject(r) ==
    IF workspaceFolders = <<>>
    THEN [r EXCEPT !.kind = "setup", !.pc = "done",
                   !.outcome = "error",
                   !.message = NoWorkspaceMessage]
    ELSE [r EXCEPT !.kind = "setup", !.pc = "pickCicd",
                   !.workspaceRoot = workspaceFolders[1],
                   !.fullDbtPath =
                       PathJoin(workspaceFolders[1], dbtProjectPath)]

\* the command dbt-runner.setupProject
SetupStart(f) ==
    /\ Startable(f)
    /\ flow' = [flow EXCEPT ![f] = SetupProject(IdleFlow)]
    /\ UNCHANGED outputChannel
    /\ SetupFrame

\* lines 23-51: the quick pick, and on an answer everything up to the first
\* timer; choice is "dismissed", "standard" or "cicd"
SetupPickCicd(f, choice) ==
    /\ flow[f].pc = "pickCicd"
    /\ choice \in {"dismissed", "standard", "cicd"}
    /\ IF choice = "dismissed"
       THEN /\ flow' = [flow EXCEPT ![f] = Finished(f, "cancelled", NoMessage)]
            /\ UNCHANGED outputChannel
       ELSE LET includeCicd == (choice = "cicd")
                r == [flow[f] EXCEPT
                         !.pc = "lockWait", !.includeCicd = includeCicd,
                         !.progress = <<Report(0, "Running poetry lock...")>>]
            IN  /\ outputChannel' =
                       <<<<"Setting up DBT project...">>,
                         <<"Workspace: ", flow[f].workspaceRoot>>,
                         <<"DBT Path: ", flow[f].fullDbtPath>>,
                         <<"Include CI/CD: ", includeCicd>>,
                         <<"---">>>>
                       \o RunLines(flow[f].workspaceRoot, PoetryLock)
                /\ flow' = [flow EXCEPT ![f] =
                       RunCommandWithEnv(r, flow[f].workspaceRoot, PoetryLock, <<>>)]
    /\ SetupFrame

TimerResolves_UnlessFailed(created) ==
    \A i \in 1..Len(created) : ~created[i].failed

\* lines 181-183: the timer calls resolve(), whatever became of the command
\* sent; reject is never called
TimerResolves(created) == TRUE

\* lines 181-183 and what setupProject does when the timer of a step fires
SetupTimer(f) ==
    /\ flow[f].kind = "setup"
    /\ flow[f].pc \in {"lockWait", "installWait", "depsWait"}
    /\ TimerResolves(flow[f].created)
    /\ CASE flow[f].pc = "lockWait" ->
              LET installCmd == InstallCmd(flow[f].includeCicd)
                  r == [flow[f] EXCEPT
                           !.pc = "installWait",
                           !.progress =
                               Append(@, Report(33, "Running poetry install..."))]
              IN  /\ outputChannel' =
                         outputChannel \o RunLines(flow[f].workspaceRoot, installCmd)
                  /\ flow' = [flow EXCEPT ![f] =
                         RunCommandWithEnv(r, flow[f].workspaceRoot, installCmd, <<>>)]
         [] flow[f].pc = "installWait" ->
              LET r == [flow[f] EXCEPT
                           !.pc = "depsWait",
                           !.progress =
                               Append(@, Report(66, "Running dbt deps..."))]
              IN  /\ outputChannel' =
                         outputChannel \o RunLines(flow[f].fullDbtPath, DbtDeps)
                  /\ flow' = [flow EXCEPT ![f] =
                         RunCommandWithEnv(r, flow[f].fullDbtPath, DbtDeps, <<>>)]
         [] flow[f].pc = "depsWait" ->
              /\ flow' = [flow EXCEPT ![f] =
                     [@ EXCEPT !.pc = "done", !.outcome = "complete",
                               !.message = SetupCompleteMessage,
                               !.progress = Append(@, Report(100, "Complete!"))]]
              /\ UNCHANGED outputChannel
    /\ SetupFrame

\* the command sent to the i-th terminal of flow f ends, well or badly; the
\* program does not look
CommandExits(f, i) ==
    /\ i \in 1..Len(flow[f].created)
    /\ flow[f].created[i].running
    /\ flow' = [flow EXCEPT ![f].created[i].running = FALSE]
    /\ UNCHANGED outputChannel
    /\ SetupFrame

\* the command sent to the i-th terminal of flow f ends with an error
CommandFails(f, i) ==
    /\ i \in 1..Len(flow[f].created)
    /\ flow[f].created[i].running
    /\ flow' = [flow EXCEPT ![f].created[i].running = FALSE,
                            ![f].created[i].failed = TRUE]
    /\ UNCHANGED outputChannel
    /\ SetupFrame

-----------------------------------------------------------------------------
(* ProjectSetup.runPreCommit *)

SnowflakeConfig(name, account, user, privateKeyPath, privateKeyPassphrase) ==
    [name |-> name, account |-> account, user |-> user,
     privateKeyPath |-> privateKeyPath,
     privateKeyPassphrase |-> privateKeyPassphrase]

AccountNames(accounts) == [i \in 1..Len(accounts) |-> accounts[i].name]

\* accounts.find(acc => acc.name === selected): <<>> or <<the first match>>
FindAccount(accounts, selected) ==
    LET hits == {i \in 1..Len(accounts) : accounts[i].name = selected}
    IN  IF hits = {} THEN <<>>
        ELSE <<accounts[CHOOSE i \in hits : \A j \in hits : i <= j]>>

\* lines 79-85
LintEnv(env, snowflakeConfig) ==
    Spread(env, [DBT_ACCOUNT |-> snowflakeConfig.account,
                 DBT_USER |-> snowflakeConfig.user,
                 DBT_PVK_PATH |-> snowflakeConfig.privateKeyPath,
                 DBT_PVK_PASS |-> snowflakeConfig.privateKeyPassphrase])

\* lines 79-100: from the resolved account to the start of the timer
LintExecute(f, r, snowflakeConfig) ==
    LET env == LintEnv(processEnv, snowflakeConfig)
        here == [r EXCEPT !.pc = "lintWait", !.message = NoMessage,
                          !.selectedAccount = <<snowflakeConfig>>,
                          !.env = env,
                          !.progress = <<Report(0, "Running pre-commit...")>>]
    IN  /\ outputChannel' =
               <<<<"Running pre-commit checks...">>,
                 <<"Workspace: ", r.workspaceRoot>>,
                 <<"Configuration: ", snowflakeConfig.name>>,
                 <<"---">>>>
               \o RunLines(r.workspaceRoot, PreCommit)
        /\ flow' = [flow EXCEPT ![f] =
               RunCommandWithEnv(here, r.workspaceRoot, PreCommit, <<env>>)]

\* lines 141-160 of getSnowflakeConfig, and runPreCommit after it
LintWithAccount(f, r, selectedAccount) ==
    IF selectedAccount = <<>>
    THEN /\ flow' = [flow EXCEPT ![f] =
               [IdleFlow EXCEPT !.kind = "lint", !.pc = "done",
                                !.outcome = "notfound"]]
         /\ UNCHANGED outputChannel
    ELSE IF selectedAccount[1].privateKeyPassphrase = <<>>
    THEN /\ flow' = [flow EXCEPT ![f] =
               [r EXCEPT !.pc = "lintPassphrase",
                         !.selectedAccount = selectedAccount]]
         /\ UNCHANGED outputChannel
    ELSE LintExecute(f, r, selectedAccount[1])

\* lines 66-74 and getSnowflakeConfig up to its first prompt
LintStart(f) ==
    /\ Startable(f)
    /\ IF workspaceFolders = <<>>
       THEN /\ flow' = [flow EXCEPT ![f] =
                  [IdleFlow EXCEPT !.kind = "lint", !.pc = "done",
                                   !.outcome = "error",
                                   !.message = NoWorkspaceMessage]]
            /\ UNCHANGED outputChannel
       ELSE LET accounts == snowflakeAccounts
                r == [IdleFlow EXCEPT !.kind = "lint",
                                      !.workspaceRoot = workspaceFolders[1],
                                      !.accounts = accounts]
            IN  IF Len(accounts) = 0
                THEN /\ flow' = [flow EXCEPT ![f] =
                           [r EXCEPT !.pc = "lintWarnNoAccounts",
                                     !.message = NoAccountsMessage]]
                     /\ UNCHANGED outputChannel
                ELSE IF Len(accounts) = 1
                THEN LintWithAccount(f, r, <<accounts[1]>>)
                ELSE /\ flow' = [flow EXCEPT ![f] =
                           [r EXCEPT !.pc = "lintPickAccount"]]
                     /\ UNCHANGED outputChannel
    /\ SetupFrame

\* 'Yes' opens the settings editor; getSnowflakeConfig returns undefined
LintWarnNoAccounts(f, answer) ==
    /\ flow[f].pc = "lintWarnNoAccounts"
    /\ answer \in {"Yes", "No", "dismissed"}
    /\ flow' = [flow EXCEPT ![f] = Finished(f, "notfound", flow[f].message)]
    /\ UNCHANGED outputChannel
    /\ SetupFrame

\* the quick pick over the account names
LintPickAccount(f, selected) ==
    /\ flow[f].pc = "lintPickAccount"
    /\ \/ selected = Undefined
       \/ \E i \in 1..Len(flow[f].accounts) :
              selected = AccountNames(flow[f].accounts)[i]
    /\ IF selected = Undefined \/ selected = <<>>
       THEN /\ flow' = [flow EXCEPT ![f] = Finished(f, "cancelled", NoMessage)]
            /\ UNCHANGED outputChannel
       ELSE LintWithAccount(f, flow[f], FindAccount(flow[f].accounts, selected))
    /\ SetupFrame

\* the masked input box of getSnowflakeConfig
LintPassphrase(f, passphrase) ==
    /\ flow[f].pc = "lintPassphrase"
    /\ IF ~PassphraseGiven(passphrase)
       THEN /\ flow' = [flow EXCEPT ![f] = Finished(f, "notfound", NoMessage)]
            /\ UNCHANGED outputChannel
       ELSE LintExecute(f, flow[f],
                [flow[f].selectedAccount[1] EXCEPT
                    !.privateKeyPassphrase = passphrase])
    /\ SetupFrame

\* the timer of the one step fires: lines 101-104
LintTimer(f) ==
    /\ flow[f].pc = "lintWait"
    /\ TimerResolves(flow[f].created)
    /\ flow' = [flow EXCEPT ![f] =
          [@ EXCEPT !.pc = "done", !.outcome = "complete",
                    !.message = LintCompleteMessage,
                    !.progress = Append(@, Report(100, "Complete!"))]]
    /\ UNCHANGED outputChannel
    /\ SetupFrame

-----------------------------------------------------------------------------
(* activate: the setup check on open, checkAndSetupProject *)

DetectedMessage ==
    "DBT project detected. Would you like to run poetry install and dbt deps?"

AutoSetupWanted_AnyFolder(autoSetup, folders) == folders # <<>>

\* lines 52-57 and 65: a folder is open and the flag, as just read, is set
AutoSetupWanted(autoSetup, folders) == folders # <<>> /\ autoSetup

StatSucceeds_Always(folder, files) == TRUE

\* line 80: fs.stat of pyproject.toml in the folder resolves
StatSucceeds(folder, files) == folder \in files

\* lines 71-80: checkAndSetupProject up to its await of fs.stat
CheckAndSetupProject(folders) ==
    IF folders = <<>>
    THEN [IdleFlow EXCEPT !.kind = "auto", !.pc = "done", !.outcome = "skipped"]
    ELSE [IdleFlow EXCEPT !.kind = "auto", !.pc = "autoStat", !.auto = TRUE,
                          !.workspaceRoot = folders[1]]

\* the flows after activate has returned: lines 52-59
Activated(autoSetup, folders) ==
    [f \in Flows |->
        IF f = 1 /\ AutoSetupWanted(autoSetup, folders)
        THEN CheckAndSetupProject(folders)
        ELSE IdleFlow]

AutoFrame ==
    UNCHANGED <<profileConfigs, environments, dbtProjectPath, processEnv,
                snowflakeAccounts, outputChannel, terminal, cmd>>

\* lines 61-68: the listener of onDidChangeWorkspaceFolders; the check it
\* starts is not awaited and runs in the first free slot
WorkspaceFoldersChanged(folders) ==
    /\ folders # workspaceFolders
    /\ workspaceFolders' = folders
    /\ IF AutoSetupWanted(autoSetupOnOpen, folders)
       THEN \E g \in Flows :
               /\ Startable(g)
               /\ \A h \in Flows : Startable(h) => g <= h
               /\ flow' = [flow EXCEPT ![g] = CheckAndSetupProject(folders)]
       ELSE UNCHANGED flow
    /\ UNCHANGED <<autoSetupOnOpen, pyprojectToml>>
    /\ AutoFrame

\* the user edits dbtRunner.autoSetupOnOpen in the settings
ChangeAutoSetup(value) ==
    /\ value # autoSetupOnOpen
    /\ autoSetupOnOpen' = value
    /\ UNCHANGED <<workspaceFolders, pyprojectToml, flow>>
    /\ AutoFrame

\* pyproject.toml is written to or deleted from a folder
PyprojectChanged(folder) ==
    /\ pyprojectToml' = IF folder \in pyprojectToml
                        THEN pyprojectToml \ {folder}
                        ELSE pyprojectToml \cup {folder}
    /\ UNCHANGED <<workspaceFolders, autoSetupOnOpen, flow>>
    /\ AutoFrame

\* lines 79-84 and 89-91: fs.stat settles; the prompt is shown or the
\* rejection is caught
AutoStat(f) ==
    /\ flow[f].pc = "autoStat"
    /\ flow' = [flow EXCEPT ![f] =
          IF StatSucceeds(flow[f].workspaceRoot, pyprojectToml)
          THEN [@ EXCEPT !.pc = "autoDetected", !.message = DetectedMessage]
          ELSE Finished(f, "skipped", NoMessage)]
    /\ UNCHANGED <<workspaceFolders, autoSetupOnOpen, pyprojectToml>>
    /\ AutoFrame

\* lines 86-88: the answer to the detection prompt; 'Yes' calls setupProject
AutoAnswer(f, answer) ==
    /\ flow[f].pc = "autoDetected"
    /\ answer \in {"Yes", "No", "dismissed"}
    /\ flow' = [flow EXCEPT ![f] =
          IF answer = "Yes"
          THEN SetupProject([IdleFlow EXCEPT !.auto = TRUE])
          ELSE Finished(f, "declined", NoMessage)]
    /\ UNCHANGED <<workspaceFolders, autoSetupOnOpen, pyprojectToml>>
    /\ AutoFrame

-----------------------------------------------------------------------------
(* What the user types and picks *)

Dev == <<"dev">>
Prod == <<"prod">>
Answers == {"Yes", "No", "dismissed"}

\* every kind of input the add prompts can get
TargetInputs ==
    {Undefined, <<>>, <<" ">>, Dev, <<" ", "dev", " ">>, Prod}
UserInputs ==
    {Undefined, <<>>, <<"\t">>, <<"alice">>, <<"bob", " ">>}
KeyPathInputs ==
    {Undefined, <<>>, <<" ", " ">>,
     <<"keys", "/", "a.p8">>,                  \* relative
     <<" ", "/", "keys", "/", "a.p8">>,        \* absolute only once trimmed
     <<"c", ":", "\\", "keys">>,               \* lower-case drive letter
     <<"/", "keys", "/", "a.p8", " ">>,
     <<"C", ":", "\\", "keys", "\\", "b.p8">>}
PassphraseInputs == {Undefined, <<>>, <<"s3cret">>}

\* the inputs of the interleaved flows: one record per name
FewTargetInputs == {Undefined, <<" ">>, Dev, <<" ", "prod">>}
FewUserInputs == {Undefined, <<>>, <<"alice">>}
FewKeyPathInputs == {Undefined, <<"keys">>, <<"/", "keys", "/", "a.p8">>}
FewPassphraseInputs == {Undefined, <<>>}

-----------------------------------------------------------------------------
(* Specifications *)

\* an ambient environment that already defines one of the profile's keys
AmbientEnv ==
    [k \in {"PATH", "DBT_USER"} |->
        IF k = "PATH" THEN <<"/", "bin">> ELSE <<"ambient">>]

InitCommon ==
    /\ autoSetupOnOpen = FALSE
    /\ pyprojectToml = {}
    /\ profileConfigs = <<>>
    /\ environments = <<Dev, Prod>>
    /\ dbtProjectPath = <<"dbt">>
    /\ outputChannel = <<>>
    /\ terminal = <<>>
    /\ flow = [f \in Flows |-> IdleFlow]
    /\ cmd = NoCmd

InitStore ==
    /\ InitCommon
    /\ snowflakeAccounts = <<>>
    /\ workspaceFolders = <<>>
    /\ processEnv = AmbientEnv

\* one add or remove flow at a time, every kind of input
NextAdd ==
    \/ AddStart(1)
    \/ \E value \in TargetInputs : AddTarget(1, value)
    \/ \E value \in UserInputs : AddUser(1, value)
    \/ \E value \in KeyPathInputs : AddKeyPath(1, value)
    \/ \E choice \in Answers : AddInclude(1, choice)
    \/ \E value \in PassphraseInputs : AddPassphrase(1, value)
    \/ \E overwrite \in Answers : AddOverwrite(1, overwrite)
    \/ RemoveStart(1)
    \/ \E i \in 1..Len(flow[1].configs) :
           RemoveSelect(1, flow[1].configs[i].profileTarget)
    \/ RemoveSelect(1, Undefined)
    \/ \E confirm \in Answers : RemoveConfirm(1, confirm)
    \/ ListProfileConfigs(1)

SpecAdd == InitStore /\ [][NextAdd]_vars

\* add and remove flows interleaved at their prompts
NextStore ==
    \E f \in Flows :
        \/ AddStart(f)
        \/ \E value \in FewTargetInputs : AddTarget(f, value)
        \/ \E value \in FewUserInputs : AddUser(f, value)
        \/ \E value \in FewKeyPathInputs : AddKeyPath(f, value)
        \/ \E choice \in Answers : AddInclude(f, choice)
        \/ \E value \in FewPassphraseInputs : AddPassphrase(f, value)
        \/ \E overwrite \in Answers : AddOverwrite(f, overwrite)
        \/ RemoveStart(f)
        \/ \E i \in 1..Len(flow[f].configs) :
               RemoveSelect(f, flow[f].configs[i].profileTarget)
        \/ RemoveSelect(f, Undefined)
        \/ \E confirm \in Answers : RemoveConfirm(f, confirm)

SpecStore == InitStore /\ [][NextStore]_vars

\* the inputs of the run flows
RunTargetInputs == {Undefined, Dev, Prod}
RunUserInputs == {Undefined, <<"alice">>}
RunKeyPathInputs == {Undefined, <<"C", ":", "\\", "keys", "\\", "a.p8">>}
RunPassphraseInputs == {Undefined, <<>>, <<"s3cret">>}
RunCommandInputs == {Undefined, <<"docs", " ", "generate">>}
RunParamsInputs == {Undefined, <<>>, <<"--full-refresh">>}
RunPromptInputs == {Undefined, <<>>, <<"pw2">>}
DbtProjectPaths == {<<"dbt">>, <<"my", " ", "dbt">>}
WorkspaceRoots == {<<"/", "ws">>}

InitRun ==
    /\ InitCommon
    /\ snowflakeAccounts = <<>>
    /\ workspaceFolders \in {<<>>} \cup {<<root>> : root \in WorkspaceRoots}
    /\ processEnv = AmbientEnv

Quiet == \A f \in Flows : flow[f].pc \in {"idle", "done"}

\* The user starts one command at a time: run and evaluator flows in slot 1,
\* add flows in slot 2.  The add flow that a run flow starts from its warning
\* runs in a free slot while the run flow waits for it.
NextRun ==
    \/ Quiet /\ AddStart(2)
    \/ \E kind \in {"run", "eval"} : Quiet /\ RunStart(1, kind)
    \/ \E f \in Flows :
        \/ \E value \in RunTargetInputs : AddTarget(f, value)
        \/ \E value \in RunUserInputs : AddUser(f, value)
        \/ \E value \in RunKeyPathInputs : AddKeyPath(f, value)
        \/ \E choice \in Answers : AddInclude(f, choice)
        \/ \E value \in RunPassphraseInputs : AddPassphrase(f, value)
        \/ \E overwrite \in Answers : AddOverwrite(f, overwrite)
        \/ \E i \in 1..Len(flow[f].candidates) :
               RunPickEnvironment(f, flow[f].candidates[i])
        \/ RunPickEnvironment(f, Undefined)
        \/ \E selected \in RunCommandInputs : RunPickCommand(f, selected)
        \/ \E params \in RunParamsInputs : RunAdditionalParams(f, params)
        \/ \E answer \in Answers : RunWarnNoConfigs(f, answer)
        \/ \E answer \in Answers : RunWarnNoMatch(f, answer)
        \/ RunAddReturned(f)
        \/ \E passphrase \in RunPromptInputs : RunPassphrase(f, passphrase)
    \/ TerminalExit
    \/ \E value \in DbtProjectPaths : ChangeDbtProjectPath(value)

SpecRun == InitRun /\ [][NextRun]_vars

\* the accounts runPreCommit can find in the settings
AccountProd ==
    SnowflakeConfig(<<"prod-acct">>, <<"xy12345">>, <<"alice">>,
                    <<"C", ":", "\\", "keys", "\\", "a.p8">>, <<"s3cret">>)
AccountDev ==
    SnowflakeConfig(<<"dev-acct">>, <<"xy12345">>, <<"bob">>,
                    <<"/", "keys", "/", "b.p8">>, <<>>)
AccountLists == {<<>>, <<AccountDev>>, <<AccountProd, AccountDev>>}

\* the lists the credential flows can find stored
StoredDev ==
    ProfileConfig(Dev, <<"alice">>, <<"/", "keys", "/", "a.p8">>, <<>>)
StoredLists == {<<>>, <<StoredDev>>}

\* the target labels of the settings: the default, and one without dev
EnvironmentLists == {<<Dev, Prod>>, <<Prod, <<"qa">>>>}

InitSetup ==
    /\ autoSetupOnOpen = FALSE
    /\ pyprojectToml = {}
    /\ outputChannel = <<>>
    /\ terminal = <<>>
    /\ flow = [f \in Flows |-> IdleFlow]
    /\ cmd = NoCmd
    /\ environments = <<Dev, Prod>>
    /\ dbtProjectPath = <<"dbt">>
    /\ processEnv = AmbientEnv
    /\ profileConfigs \in StoredLists
    /\ snowflakeAccounts \in AccountLists
    /\ workspaceFolders \in {<<>>} \cup {<<root>> : root \in WorkspaceRoots}

\* The user starts one command at a time, in slot 1: setup-project, run-lint,
\* run-command or run-evaluator.  The timers fire and the commands sent to
\* the setup terminals end whenever they do.  An add flow started from a
\* warning is dismissed at its first prompt.
NextSetup ==
    \/ Quiet /\ SetupStart(1)
    \/ Quiet /\ LintStart(1)
    \/ \E kind \in {"run", "eval"} : Quiet /\ RunStart(1, kind)
    \/ \E f \in Flows :
        \/ \E choice \in {"dismissed", "standard", "cicd"} : SetupPickCicd(f, choice)
        \/ SetupTimer(f)
        \/ \E i \in 1..Len(flow[f].created) : CommandExits(f, i)
        \/ \E answer \in Answers : LintWarnNoAccounts(f, answer)
        \/ \E i \in 1..Len(flow[f].accounts) :
               LintPickAccount(f, flow[f].accounts[i].name)
        \/ LintPickAccount(f, Undefined)
        \/ \E passphrase \in RunPromptInputs : LintPassphrase(f, passphrase)
        \/ LintTimer(f)
        \/ \E i \in 1..Len(flow[f].candidates) :
               RunPickEnvironment(f, flow[f].candidates[i])
        \/ RunPickEnvironment(f, Undefined)
        \/ \E selected \in RunCommandInputs : RunPickCommand(f, selected)
        \/ \E params \in RunParamsInputs : RunAdditionalParams(f, params)
        \/ \E answer \in Answers : RunWarnNoConfigs(f, answer)
        \/ \E answer \in Answers : RunWarnNoMatch(f, answer)
        \/ AddTarget(f, Undefined)
        \/ RunAddReturned(f)
        \/ \E passphrase \in RunPromptInputs : RunPassphrase(f, passphrase)
    \/ TerminalExit
    \/ \E value \in DbtProjectPaths : ChangeDbtProjectPath(value)
    \/ \E value \in EnvironmentLists : ChangeEnvironments(value)

SpecSetup == InitSetup /\ [][NextSetup]_vars

\* The profile commands and run-lint, one command at a time: add and remove
\* flows in slot 2 maintain the profile list, run-lint runs in slot 1 against
\* whatever the settings hold.
InitLint ==
    /\ InitCommon
    /\ processEnv = AmbientEnv
    /\ snowflakeAccounts \in AccountLists
    /\ workspaceFolders \in {<<>>} \cup {<<root>> : root \in WorkspaceRoots}

NextLint ==
    \/ Quiet /\ AddStart(2)
    \/ Quiet /\ RemoveStart(2)
    \/ Quiet /\ LintStart(1)
    \/ \E f \in Flows :
        \/ \E value \in FewTargetInputs : AddTarget(f, value)
        \/ \E value \in FewUserInputs : AddUser(f, value)
        \/ \E value \in FewKeyPathInputs : AddKeyPath(f, value)
        \/ \E choice \in Answers : AddInclude(f, choice)
        \/ \E value \in PassphraseInputs : AddPassphrase(f, value)
        \/ \E overwrite \in Answers : AddOverwrite(f, overwrite)
        \/ \E i \in 1..Len(flow[f].configs) :
               RemoveSelect(f, flow[f].configs[i].profileTarget)
        \/ RemoveSelect(f, Undefined)
        \/ \E confirm \in Answers : RemoveConfirm(f, confirm)
        \/ \E answer \in Answers : LintWarnNoAccounts(f, answer)
        \/ \E i \in 1..Len(flow[f].accounts) :
               LintPickAccount(f, flow[f].accounts[i].name)
        \/ LintPickAccount(f, Undefined)
        \/ \E passphrase \in RunPromptInputs : LintPassphrase(f, passphrase)
        \/ LintTimer(f)
        \/ \E i \in 1..Len(flow[f].created) : CommandExits(f, i)

SpecLint == InitLint /\ [][NextLint]_vars

\* the folders of the setup check: one is the project, the other is not
AutoRoots == {<<"/", "ws">>, <<"/", "other">>}
AutoFolderLists ==
    {<<>>, <<<<"/", "ws">>>>, <<<<"/", "other">>>>,
     <<<<"/", "other">>, <<"/", "ws">>>>}

InitAuto ==
    /\ autoSetupOnOpen \in BOOLEAN
    /\ pyprojectToml \in {{}, {<<"/", "ws">>}}
    /\ workspaceFolders \in AutoFolderLists
    /\ flow = Activated(autoSetupOnOpen, workspaceFolders)
    /\ profileConfigs = <<>>
    /\ snowflakeAccounts = <<>>
    /\ environments = <<Dev, Prod>>
    /\ dbtProjectPath = <<"dbt">>
    /\ processEnv = AmbientEnv
    /\ outputChannel = <<>>
    /\ terminal = <<>>
    /\ cmd = NoCmd

\* After activation: the workspace folders, the flag and the project file
\* change whenever they do; the user invokes setup-project when nothing else
\* is going on; the checks started on open run to their end, and a setup flow
\* that has started is dismissed at its package-group prompt.
NextAuto ==
    \/ \E folders \in AutoFolderLists : WorkspaceFoldersChanged(folders)
    \/ \E value \in BOOLEAN : ChangeAutoSetup(value)
    \/ \E folder \in {<<"/", "ws">>} : PyprojectChanged(folder)
    \/ Quiet /\ SetupStart(1)
    \/ \E f \in Flows :
        \/ AutoStat(f)
        \/ \E answer \in Answers : AutoAnswer(f, answer)
        \/ SetupPickCicd(f, "dismissed")

SpecAuto == InitAuto /\ [][NextAuto]_vars

\* The flows that wait on timers: the user invokes setup-project or run-lint
\* when nothing else is going on; each command sent goes on running, ends or
\* fails whenever it does; a timer that was started fires.
InitTimers ==
    /\ InitCommon
    /\ processEnv = AmbientEnv
    /\ snowflakeAccounts \in AccountLists
    /\ workspaceFolders \in {<<>>} \cup {<<root>> : root \in WorkspaceRoots}

NextTimers ==
    \/ Quiet /\ SetupStart(1)
    \/ Quiet /\ LintStart(1)
    \/ \E f \in Flows :
        \/ \E choice \in {"dismissed", "standard", "cicd"} : SetupPickCicd(f, choice)
        \/ SetupTimer(f)
        \/ \E answer \in Answers : LintWarnNoAccounts(f, answer)
        \/ \E i \in 1..Len(flow[f].accounts) :
               LintPickAccount(f, flow[f].accounts[i].name)
        \/ LintPickAccount(f, Undefined)
        \/ \E passphrase \in RunPromptInputs : LintPassphrase(f, passphrase)
        \/ LintTimer(f)
        \/ \E i \in 1..Len(flow[f].created) : CommandExits(f, i)
        \/ \E i \in 1..Len(flow[f].created) : CommandFails(f, i)

\* setTimeout(..., 2000): a timer that is pending fires
SpecTimers ==
    /\ InitTimers /\ [][NextTimers]_vars
    /\ \A f \in Flows : WF_vars(SetupTimer(f)) /\ WF_vars(LintTimer(f))

\* every path of at most MaxPathLen atoms over these characters
PathAtoms == {"a", " ", "\"", "/"}
PathStrings == UNION {[1..n -> PathAtoms] : n \in 0..MaxPathLen}

\* inputs of the command assembly
CmdWorkspaceRoots ==
    {<<"/", "ws">>, <<"/", "my", " ", "ws">>, <<"/", "a", "\"", "b">>,
     <<"/", "a", "\t", "b">>, <<"/", "my", " ", "\"", "ws">>}
CmdProjectPaths ==
    {<<"dbt">>, <<>>, <<"my", " ", "dbt">>, <<"sub", "/", "dbt", "/">>,
     <<"..", "/", "x", " ", "--project-dir", " ", "y">>}
CmdEnvironments == {Dev, Prod, <<"my", " ", "env">>, <<"\"", "qa">>}
CmdParams ==
    {<<>>, <<" ">>, <<"--full-refresh">>, <<" ", "--full-refresh", "\t">>,
     <<"--select", " ", " ", "model">>, <<"-s", "\t", "model">>,
     <<"--project-dir", " ", "x">>, <<"--profiles-dir">>,
     <<"--vars", " ", "\"", "a", " ", "b", "\"">>, <<"\"", "a", " ">>}

InitCmd ==
    /\ InitCommon
    /\ snowflakeAccounts = <<>>
    /\ workspaceFolders = <<>>
    /\ processEnv = AmbientEnv

NextCmd ==
    \/ \E pathString \in PathStrings : CmdQuotePath(pathString)
    \/ \E workspaceRoot \in CmdWorkspaceRoots, projectPath \in CmdProjectPaths,
          environment \in CmdEnvironments, i \in 1..Len(DbtCommands),
          additionalParams \in CmdParams :
           CmdBuild(workspaceRoot, projectPath, environment, DbtCommands[i],
                    additionalParams)

SpecCmd == InitCmd /\ [][NextCmd]_vars

-----------------------------------------------------------------------------
(* Properties *)

Sent(f) ==
    flow[f].kind \in {"run", "eval"} /\ flow[f].pc = "done"
    /\ flow[f].outcome = "sent"

\* s with every backslash turned into a forward slash
ForwardSlashes(s) == [i \in 1..Len(s) |-> IF s[i] = "\\" THEN "/" ELSE s[i]]

\* Shell words: s cut at spaces and tabs outside double quotes; the quotes
\* stay in the word.  word is the word being read, open says whether a
\* quote is open.
RECURSIVE ShellWords(_, _, _)
ShellWords(s, word, open) ==
    IF s = <<>> THEN (IF word = <<>> THEN <<>> ELSE <<word>>)
    ELSE IF Head(s) = "\"" THEN ShellWords(Tail(s), Append(word, Head(s)), ~open)
    ELSE IF IsWhitespace(Head(s)) /\ ~open
         THEN (IF word = <<>> THEN <<>> ELSE <<word>>)
              \o ShellWords(Tail(s), <<>>, FALSE)
    ELSE ShellWords(Tail(s), Append(word, Head(s)), open)

Words(s) == ShellWords(s, <<>>, FALSE)

Occurrences(words, w) == Cardinality({i \in 1..Len(words) : words[i] = w})

\* the words end with --target, target and then exactly the words of extra
EndsWithTargetThen(words, target, extra) ==
    /\ Len(words) >= Len(extra) + 2
    /\ words[Len(words) - Len(extra) - 1] = <<"--target">>
    /\ words[Len(words) - Len(extra)] = target
    /\ SubSeq(words, Len(words) - Len(extra) + 1, Len(words)) = extra

\* C5 as stated: for every sub-command, project directory, target and
\* extra-argument string the words of the command line hold --project-dir once
\* and --profiles-dir once, and end with --target <target> and then the words
\* of the extra arguments.
C5_EveryCommandLine ==
    cmd.op = "build" =>
        LET words == Words(cmd.fullCommand)
        IN  /\ Occurrences(words, <<"--project-dir">>) = 1
            /\ Occurrences(words, <<"--profiles-dir">>) = 1
            /\ EndsWithTargetThen(words, cmd.environment,
                                  Words(cmd.additionalParams))

\* a string that a shell reads as it is written: no double quote, no tab
Plain(s) == ~Includes(s, "\"") /\ ~Includes(s, "\t")

\* C5 amended: when the project directory holds no double quote and no tab and
\* the target is one plain word, the words of the command line are the words
\* poetry run dbt <sub-command>, then --project-dir and the directory, then
\* --profiles-dir and the profiles directory, then --target and the target,
\* then the words of the trimmed extra arguments; --project-dir and
\* --profiles-dir occur once each before the extra arguments' own words.
C5_CommandLineShape ==
    (/\ cmd.op = "build"
     /\ Plain(cmd.fullDbtPath)
     /\ Plain(cmd.environment) /\ ~Includes(cmd.environment, " ")
     /\ cmd.environment # <<>>)
    =>
        LET words == Words(cmd.fullCommand)
            extra == Words(Trim(cmd.additionalParams))
            own == SubSeq(words, 1, Len(words) - Len(extra))
            base == Words(cmd.dbtCommand)
        IN  /\ EndsWithTargetThen(words, cmd.environment, extra)
            /\ Occurrences(own, <<"--project-dir">>) = 1
            /\ Occurrences(own, <<"--profiles-dir">>) = 1
            /\ Len(own) = 3 + Len(base) + 6
            /\ SubSeq(own, 1, 3) = <<<<"poetry">>, <<"run">>, <<"dbt">>>>
            /\ SubSeq(own, 4, 3 + Len(base)) = base
            /\ own[Len(own) - 5] = <<"--project-dir">>
            /\ own[Len(own) - 3] = <<"--profiles-dir">>

\* a command line with extra arguments was built from a directory with a space
C5_Witness ==
    /\ cmd.op = "build"
    /\ Plain(cmd.fullDbtPath) /\ Includes(cmd.fullDbtPath, " ")
    /\ cmd.environment = Prod
    /\ Len(Words(Trim(cmd.additionalParams))) = 2
    /\ Occurrences(Words(cmd.fullCommand), <<"--project-dir">>) = 2

\* C6: quotePath wraps a path that holds a space and does not start with a
\* double quote in one pair of double quotes, returns every other path
\* unchanged (no space, or already starting with a double quote), and
\* quotePath of its result is that result.
C6_QuotePath ==
    cmd.op = "quotePath" =>
        LET p == cmd.pathString
        IN  /\ (Includes(p, " ") /\ (p = <<>> \/ Head(p) # "\""))
                   => cmd.quoted = <<"\"">> \o p \o <<"\"">>
            /\ ~Includes(p, " ") => cmd.quoted = p
            /\ (p # <<>> /\ Head(p) = "\"") => cmd.quoted = p
            /\ cmd.requoted = cmd.quoted

\* a path with a space was wrapped, and wrapping it again changed nothing
C6_Witness ==
    /\ cmd.op = "quotePath"
    /\ Includes(cmd.pathString, " ")
    /\ cmd.quoted # cmd.pathString
    /\ cmd.requoted = cmd.quoted

\* C2: when the add flow asks whether to overwrite an existing name and the
\* answer is 'No' or the warning is dismissed, that step leaves the persisted
\* list as it was (same records, same order) and the flow ends.
C2_DeclinedOverwriteWritesNothing ==
    [][\A f \in Flows : \A overwrite \in {"No", "dismissed"} :
          AddOverwrite(f, overwrite) =>
              /\ profileConfigs' = profileConfigs
              /\ flow'[f].pc = "done"]_vars

\* an add flow for a stored name ended at the overwrite question, declined
C2_Witness ==
    /\ flow[1].kind = "add" /\ flow[1].pc = "done" /\ flow[1].outcome = "declined"
    /\ Len(profileConfigs) = 2

\* C9: no two records of the persisted list have the same profile target,
\* whatever add and remove flows have run, completed or not, and however
\* they were interleaved at their prompts.
C9_UniqueNames ==
    \A i, j \in 1..Len(profileConfigs) :
        profileConfigs[i].profileTarget = profileConfigs[j].profileTarget => i = j

\* one flow overwrote a record and another removed one, with two records stored
C9_Witness ==
    \E f, g \in Flows :
        /\ f # g
        /\ flow[f].kind = "add" /\ flow[f].outcome = "updated"
        /\ flow[g].kind = "remove" /\ flow[g].outcome = "removed"
        /\ Len(profileConfigs) = 2

DriveLetters == {"C", "D", "c", "d"}

\* starts with "/" or with a drive letter, a colon and a separator
SyntacticallyAbsolute(path) ==
    \/ Len(path) >= 1 /\ path[1] = "/"
    \/ Len(path) >= 3 /\ path[1] \in DriveLetters /\ path[2] = ":"
       /\ path[3] \in {"\\", "/"}

\* C10: every stored record has a non-empty target, user and key path, none
\* of them with white space around it, and an absolute key path; an input
\* that fails validation keeps its prompt open with the message shown.
C10_StoredRecordsValid ==
    /\ \A i \in 1..Len(profileConfigs) :
          LET cfg == profileConfigs[i]
          IN  /\ cfg.profileTarget # <<>> /\ cfg.user # <<>>
              /\ cfg.privateKeyPath # <<>>
              /\ ~IsWhitespace(cfg.profileTarget[1])
              /\ ~IsWhitespace(cfg.profileTarget[Len(cfg.profileTarget)])
              /\ ~IsWhitespace(cfg.user[1])
              /\ ~IsWhitespace(cfg.user[Len(cfg.user)])
              /\ ~IsWhitespace(cfg.privateKeyPath[Len(cfg.privateKeyPath)])
              /\ SyntacticallyAbsolute(cfg.privateKeyPath)
    /\ \A f \in Flows :
          /\ flow[f].message = "Profile target is required"
                => flow[f].pc = "addTarget"
          /\ flow[f].message = "Username is required" => flow[f].pc = "addUser"
          /\ flow[f].message \in {"Private key path is required",
                                  "Please provide an absolute path"}
                => flow[f].pc = "addKeyPath"

\* a record typed with white space around its fields is stored trimmed, next
\* to one with a drive-letter path
C10_Witness ==
    /\ Len(profileConfigs) = 2
    /\ profileConfigs[1].profileTarget = Dev
    /\ profileConfigs[1].user = <<"bob">>
    /\ profileConfigs[1].privateKeyPath = <<"/", "keys", "/", "a.p8">>
    /\ profileConfigs[2].privateKeyPath[1] = "C"
    /\ flow[1].kind = "add" /\ flow[1].outcome = "added"

\* flow g added a record under a name that was not stored, and flow f has
\* since looked that name up in a list that held the record
AddedThenResolved(g, f) ==
    /\ flow[g].kind = "add" /\ flow[g].pc = "done" /\ flow[g].outcome = "added"
    /\ \E i \in 1..Len(flow[f].configs) : flow[f].configs[i] = flow[g].newConfig
    /\ flow[f].kind \in {"run", "eval"} /\ flow[f].pc = "done"
    /\ flow[f].outcome \in {"sent", "notfound"}
    /\ flow[f].matchingConfig # <<>>
    /\ flow[f].environment = flow[g].newConfig.profileTarget

\* C1 as stated: a record added under a new name and then resolved by that
\* name comes back with the target, user, key path and passphrase that were
\* stored.
C1_RoundTripExact ==
    \A f, g \in Flows :
        AddedThenResolved(g, f) => flow[f].profileConfig = <<flow[g].newConfig>>

\* C1 amended: the resolved record has the stored target, user and key path,
\* and the stored passphrase when that is not empty; when the stored
\* passphrase is empty the resolve returns the record with the passphrase
\* entered at its prompt, or nothing when the prompt is dismissed or left
\* empty.
C1_RoundTrip ==
    \A f, g \in Flows :
        AddedThenResolved(g, f) =>
            LET added == flow[g].newConfig
                resolved == flow[f].profileConfig
            IN  IF added.privateKeyPassphrase # <<>>
                THEN resolved = <<added>>
                ELSE \/ /\ resolved = <<>>
                        /\ flow[f].outcome = "notfound"
                     \/ /\ resolved # <<>>
                        /\ resolved[1].profileTarget = added.profileTarget
                        /\ resolved[1].user = added.user
                        /\ resolved[1].privateKeyPath = added.privateKeyPath
                        /\ resolved[1].privateKeyPassphrase = flow[f].passphrase
                        /\ flow[f].passphrase \notin {<<>>, Undefined}

\* the second of two stored records, added with a passphrase, was resolved
C1_Witness ==
    \E f, g \in Flows :
        /\ AddedThenResolved(g, f)
        /\ Len(profileConfigs) = 2
        /\ profileConfigs[2] = flow[g].newConfig
        /\ flow[g].newConfig.privateKeyPassphrase = <<"s3cret">>
        /\ flow[f].profileConfig = <<flow[g].newConfig>>

\* C3 as stated: the command last sent to the runner's terminal runs in a
\* terminal whose working directory and environment are the ones built by
\* the flow that sent it.
C3_SentUnderOwnEnvironment ==
    \A i \in 1..Len(terminal) : \A j \in 1..Len(terminal[i].sent) :
        /\ terminal[i].sent[j].env = terminal[i].env
        /\ terminal[i].sent[j].cwd = terminal[i].cwd

ProfileKeys == {"DBT_USER", "DBT_PVK_PATH", "DBT_PVK_PASS"}

C7_PromptedPassphraseInEnvironment ==
    \A f \in Flows :
        (/\ Sent(f) /\ flow[f].kind = "run"
         /\ flow[f].matchingConfig[1].privateKeyPassphrase = <<>>)
        =>
            /\ flow[f].passphrase \notin {<<>>, Undefined}
            /\ flow[f].matchingConfig[1].profileTarget = flow[f].environment
            /\ flow[f].env["DBT_USER"] = flow[f].matchingConfig[1].user
            /\ flow[f].env["DBT_PVK_PATH"] =
                   ForwardSlashes(flow[f].matchingConfig[1].privateKeyPath)
            /\ flow[f].env["DBT_PVK_PASS"] = flow[f].passphrase
            /\ terminal # <<>>
            /\ terminal[1].sent # <<>>
            /\ terminal[1].sent[1].env = flow[f].env

\* dev is stored without a passphrase; the user ran a command on dev with
\* extra arguments and typed pw2
C7_Witness ==
    \E f \in Flows :
        /\ Sent(f) /\ flow[f].kind = "run"
        /\ flow[f].environment = Dev
        /\ flow[f].additionalParams # <<>>
        /\ flow[f].matchingConfig[1].privateKeyPassphrase = <<>>
        /\ flow[f].env["DBT_PVK_PASS"] = <<"pw2">>
        /\ flow[f].env["DBT_USER"] = <<"alice">>

\* C8: a run-command flow that reaches the lookup while the stored list is
\* empty shows the missing-configuration warning and leaves the terminal
\* alone; whatever is answered to the warning, the flow then ends without
\* creating a terminal or sending text.
C8_EmptyStoreNoTerminal ==
    [][\A f \in Flows :
          /\ (/\ flow[f].pc = "additionalParams"
              /\ profileConfigs = <<>>
              /\ flow'[f].pc # "additionalParams"
              /\ flow'[f].outcome # "cancelled")
             => /\ flow'[f].pc = "warnNoConfigs"
                /\ flow'[f].message = NoConfigsMessage
                /\ terminal' = terminal
          /\ (flow[f].pc = "warnNoConfigs" /\ flow'[f] # flow[f])
             => /\ flow'[f].pc = "done"
                /\ flow'[f].outcome = "notfound"
                /\ terminal' = terminal]_vars

\* the warning was shown and answered, and no terminal exists
C8_Witness ==
    \E f \in Flows :
        /\ flow[f].kind = "run" /\ flow[f].pc = "done"
        /\ flow[f].outcome = "notfound"
        /\ flow[f].message = NoConfigsMessage
        /\ profileConfigs = <<>>
        /\ terminal = <<>>

-----------------------------------------------------------------------------
(* Cancelling the store flows *)

\* C11: when a prompt of the add flow is dismissed (profile target, user, key
\* path, the choice to store the passphrase, or the passphrase), that step
\* leaves the persisted list as it was and the flow ends with nothing shown.
C11_DismissedAddWritesNothing ==
    [][\A f \in Flows :
          (\/ AddTarget(f, Undefined) \/ AddUser(f, Undefined)
           \/ AddKeyPath(f, Undefined) \/ AddInclude(f, "dismissed")
           \/ AddPassphrase(f, Undefined))
          => /\ profileConfigs' = profileConfigs
             /\ flow'[f].pc = "done"
             /\ flow'[f].message = NoMessage]_vars

\* the add flow was cancelled after a record had been stored
C11_Witness ==
    /\ flow[1].kind = "add" /\ flow[1].pc = "done"
    /\ flow[1].outcome = "cancelled" /\ flow[1].message = NoMessage
    /\ Len(profileConfigs) = 1

\* configs without its k-th record
Without(configs, k) == SubSeq(configs, 1, k - 1) \o SubSeq(configs, k + 1, Len(configs))

\* C12: a remove flow that finds the list empty, whose selection is dismissed
\* or whose confirmation is not answered 'Yes' leaves the persisted list as it
\* was; answered 'Yes', it writes the list it read at its start without the
\* one record of the selected name: no record of that name remains, the list
\* is one shorter, the other records keep their order.
C12_Remove ==
    [][\A f \in Flows :
          /\ (RemoveStart(f) \/ RemoveSelect(f, Undefined)
              \/ RemoveConfirm(f, "No") \/ RemoveConfirm(f, "dismissed"))
             => profileConfigs' = profileConfigs
          /\ (RemoveStart(f) /\ profileConfigs = <<>>)
             => flow'[f].pc = "done"
          /\ (RemoveSelect(f, Undefined)
              \/ RemoveConfirm(f, "No") \/ RemoveConfirm(f, "dismissed"))
             => flow'[f].pc = "done" /\ flow'[f].message = NoMessage
          /\ RemoveConfirm(f, "Yes")
             => LET before == flow[f].configs
                    selected == flow[f].selected
                IN  /\ \A i \in 1..Len(profileConfigs') :
                           profileConfigs'[i].profileTarget # selected
                    /\ Len(profileConfigs') = Len(before) - 1
                    /\ \E k \in 1..Len(before) :
                           /\ before[k].profileTarget = selected
                           /\ profileConfigs' = Without(before, k)]_vars

\* the second of two stored records was removed
C12_Witness ==
    \E f \in Flows :
        /\ flow[f].kind = "remove" /\ flow[f].pc = "done"
        /\ flow[f].outcome = "removed"
        /\ Len(profileConfigs) = 1
        /\ profileConfigs[1].profileTarget = Dev

-----------------------------------------------------------------------------
(* The list page *)

\* passphrases a stored non-empty passphrase is exchanged for
OtherPassphrases == {<<"s3cret">>, <<"hunter2">>, <<"***">>}

\* the lists that differ from configs only in the values of its non-empty
\* passphrases
PassphraseVariants(configs) ==
    {[i \in 1..Len(configs) |->
         IF configs[i].privateKeyPassphrase # <<>>
         THEN [configs[i] EXCEPT !.privateKeyPassphrase = other[i]]
         ELSE configs[i]] : other \in [1..Len(configs) -> OtherPassphrases]}

\* C13: the page that list shows is the same for every list that differs from
\* the listed one only in the values of non-empty passphrases, a non-empty
\* passphrase is shown as '***', and the list command writes nothing to the
\* persisted list.
C13_ListMasksPassphrases ==
    /\ [](\A f \in Flows :
            (flow[f].kind = "list" /\ flow[f].outcome = "listed") =>
                /\ \A alt \in PassphraseVariants(flow[f].configs) :
                       RenderReport(alt) = flow[f].panel
                /\ \A i \in 1..Len(flow[f].configs) :
                       flow[f].configs[i].privateKeyPassphrase # <<>>
                           => RenderPassphrase(flow[f].configs[i]) = Placeholder)
    /\ [][\A f \in Flows :
             ListProfileConfigs(f) => profileConfigs' = profileConfigs]_vars

\* a list of two records, one with a stored passphrase, was shown
C13_Witness ==
    \E f \in Flows :
        /\ flow[f].kind = "list" /\ flow[f].outcome = "listed"
        /\ Len(flow[f].configs) = 2
        /\ flow[f].configs[1].privateKeyPassphrase = <<"s3cret">>
        /\ flow[f].configs[2].privateKeyPassphrase = <<>>
        /\ flow[f].panel # <<>>

-----------------------------------------------------------------------------
(* Lookups that find nothing *)

\* flow f is at the step of its command that calls getProfileConfig
AtLookup(f) ==
    \/ flow[f].kind = "eval" /\ flow[f].pc = "pickEnvironment"
    \/ flow[f].kind = "run" /\ flow[f].pc = "additionalParams"

\* this step of flow f called getProfileConfig
LooksUp(f) ==
    /\ AtLookup(f)
    /\ flow'[f].pc # flow[f].pc
    /\ flow'[f].outcome # "cancelled"

\* C14: a lookup in a non-empty list that holds no record of the selected
\* target shows the warning that offers the add flow and resolves nothing: no
\* record is substituted, and whatever is answered, and whatever the add flow
\* started from the warning stores, the calling flow ends as 'not found'
\* without having touched the terminal.
C14_NoMatchSendsNothing ==
    [][\A f \in Flows :
          /\ (/\ LooksUp(f)
              /\ profileConfigs # <<>>
              /\ \A i \in 1..Len(profileConfigs) :
                     profileConfigs[i].profileTarget # flow'[f].environment)
             => /\ flow'[f].pc = "warnNoMatch"
                /\ flow'[f].message = NoMatchMessage
                /\ flow'[f].matchingConfig = <<>>
                /\ flow'[f].profileConfig = <<>>
                /\ terminal' = terminal
          /\ (flow[f].pc \in {"warnNoMatch", "awaitAdd"} /\ flow'[f] # flow[f])
             => /\ terminal' = terminal
                /\ \/ flow[f].pc = "warnNoMatch" /\ flow'[f].pc = "awaitAdd"
                   \/ /\ flow'[f].pc = "done"
                      /\ flow'[f].outcome = "notfound"
                      /\ flow'[f].profileConfig = <<>>]_vars

\* the offer was accepted, the add flow stored the missing record next to the
\* one already stored, and the run flow ended without a terminal
C14_Witness ==
    \E f, g \in Flows :
        /\ flow[f].kind \in {"run", "eval"} /\ flow[f].pc = "done"
        /\ flow[f].outcome = "notfound" /\ flow[f].message = NoMatchMessage
        /\ flow[g].kind = "add" /\ flow[g].outcome = "added"
        /\ Len(profileConfigs) = 2
        /\ terminal = <<>>

\* C15: a lookup that finds the record of the selected target with an empty
\* stored passphrase asks for the passphrase and touches no terminal; when the
\* prompt is dismissed or left empty the flow ends as 'not found', silently
\* and without touching the terminal; a record with a stored passphrase is
\* used at once, with that passphrase and without a prompt.
C15_PassphrasePrompt ==
    [][\A f \in Flows :
          /\ \A i \in 1..Len(profileConfigs) :
                (LooksUp(f) /\ profileConfigs[i].profileTarget = flow'[f].environment)
                => IF profileConfigs[i].privateKeyPassphrase = <<>>
                   THEN /\ flow'[f].pc = "passphrase"
                        /\ flow'[f].matchingConfig = <<profileConfigs[i]>>
                        /\ terminal' = terminal
                   ELSE /\ flow'[f].pc = "done" /\ flow'[f].outcome = "sent"
                        /\ flow'[f].profileConfig = <<profileConfigs[i]>>
                        /\ flow'[f].env["DBT_PVK_PASS"] =
                               profileConfigs[i].privateKeyPassphrase
          /\ (RunPassphrase(f, Undefined) \/ RunPassphrase(f, <<>>))
             => /\ flow'[f].pc = "done" /\ flow'[f].outcome = "notfound"
                /\ flow'[f].message = NoMessage
                /\ flow'[f].profileConfig = <<>>
                /\ terminal' = terminal]_vars

\* the prompt for the passphrase of a stored record was left unanswered
C15_Witness ==
    \E f \in Flows :
        /\ flow[f].kind \in {"run", "eval"} /\ flow[f].pc = "done"
        /\ flow[f].outcome = "notfound"
        /\ flow[f].matchingConfig # <<>>
        /\ flow[f].matchingConfig[1].privateKeyPassphrase = <<>>
        /\ terminal = <<>>

-----------------------------------------------------------------------------
(* The setup flow *)

\* the package-group prompt of setup flow f has been answered
SetupAnswered(f) ==
    /\ flow[f].kind = "setup"
    /\ flow[f].pc \in {"lockWait", "installWait", "depsWait", "done"}
    /\ flow[f].outcome \notin {"cancelled", "error"}

\* the commands setup flow f is to send, with their working directories
SetupPlan(f) ==
    <<[cwd |-> flow[f].workspaceRoot, command |-> PoetryLock],
      [cwd |-> flow[f].workspaceRoot,
       command |-> IF flow[f].includeCicd THEN PoetryInstallCicd
                   ELSE PoetryInstall],
      [cwd |-> flow[f].fullDbtPath, command |-> DbtDeps]>>

\* how many commands flow f has sent when it is at pc
SentAt(pc) ==
    CASE pc = "lockWait" -> 1
      [] pc = "installWait" -> 2
      [] pc \in {"depsWait", "done"} -> 3

\* C16: a setup flow whose package-group prompt is answered sends 'poetry
\* lock' in the workspace root, then 'poetry install' (with ' --with cicd' iff
\* the CI/CD option was chosen) in the workspace root, then 'poetry run dbt
\* deps' in the workspace root joined with the project path read at the start
\* of the flow: three commands when it is done, each sent once, and each after
\* the first only when the timer started by the previous send fires.
C16_SetupSequence ==
    /\ [](\A f \in Flows :
            SetupAnswered(f) =>
                /\ Len(flow[f].created) = SentAt(flow[f].pc)
                /\ \A i \in 1..Len(flow[f].created) :
                       /\ flow[f].created[i].sent = <<SetupPlan(f)[i].command>>
                       /\ flow[f].created[i].cwd = SetupPlan(f)[i].cwd)
    /\ [][\A f \in Flows :
             /\ (SetupStart(f) /\ workspaceFolders # <<>>)
                => flow'[f].fullDbtPath =
                       PathJoin(workspaceFolders[1], dbtProjectPath)
             /\ (SetupAnswered(f) /\ flow'[f].created # flow[f].created
                 /\ flow'[f].kind = "setup" /\ flow'[f].pc # "pickCicd")
                => \/ SetupTimer(f)
                   \/ \E i \in 1..Len(flow[f].created) : CommandExits(f, i)]_vars

\* a setup with the CI/CD packages is done: three commands, the last one in
\* the project directory
C16_Witness ==
    \E f \in Flows :
        /\ SetupAnswered(f) /\ flow[f].pc = "done"
        /\ flow[f].includeCicd
        /\ Len(flow[f].created) = 3
        /\ flow[f].created[2].sent = <<PoetryInstallCicd>>
        /\ flow[f].created[3].cwd = <<"/", "ws", "/", "my", " ", "dbt">>

\* the steps of a setup flow in their order
SetupRank(pc) ==
    CASE pc = "pickCicd" -> 0
      [] pc = "lockWait" -> 1
      [] pc = "installWait" -> 2
      [] pc = "depsWait" -> 3
      [] pc = "done" -> 4

Running(f) == {i \in 1..Len(flow[f].created) : flow[f].created[i].running}

\* C17 as stated: a setup flow moves only forward through lock, install and
\* fetch-dependencies to done, or to cancelled from its prompt, never back and
\* never twice through a step, and the commands of two of its steps are never
\* in progress at the same time.
C17_ForwardOneAtATime ==
    /\ [][\A f \in Flows :
             (flow[f].kind = "setup" /\ flow[f].pc # "done"
              /\ flow'[f].pc # flow[f].pc)
             => /\ flow'[f].kind = "setup"
                /\ SetupRank(flow'[f].pc) > SetupRank(flow[f].pc)
                /\ flow'[f].outcome = "cancelled" => flow[f].pc = "pickCicd"
                /\ flow'[f].outcome # "cancelled"
                   => SetupRank(flow'[f].pc) = SetupRank(flow[f].pc) + 1]_vars
    /\ [](\A f \in Flows :
            flow[f].kind = "setup" => Cardinality(Running(f)) <= 1)

\* the progress shown after each of the first n reports
ShownSeries(reports) ==
    [k \in 1..Len(reports) |-> ProgressShown(SubSeq(reports, 1, k))]

\* C18 as stated: the progress of a setup flow is 0, 33, 66 and 100 per cent
\* in that order, one value before each of the three steps and 100 after the
\* last, never above 100 and never decreasing.
C18_ProgressValues ==
    \A f \in Flows :
        SetupAnswered(f) =>
            LET shown == ShownSeries(flow[f].progress)
            IN  /\ Len(shown) = IF flow[f].pc = "done" THEN 4
                                ELSE SentAt(flow[f].pc)
                /\ \A k \in 1..Len(shown) :
                       /\ shown[k] = <<0, 33, 66, 100>>[k]
                       /\ shown[k] <= 100
                       /\ k > 1 => shown[k - 1] <= shown[k]

-----------------------------------------------------------------------------
(* Flows that stop before they do anything *)

\* C19: with no workspace folder open, run-command, run-evaluator,
\* setup-project and run-lint each show 'No workspace folder open' and end at
\* once: no prompt is shown, no setting is read or written, the output
\* channel is not touched and no terminal is created.
C19_NoWorkspace ==
    [][\A f \in Flows :
          (/\ workspaceFolders = <<>>
           /\ \/ RunStart(f, "run") \/ RunStart(f, "eval")
              \/ SetupStart(f) \/ LintStart(f))
          => /\ flow'[f].pc = "done"
             /\ flow'[f].outcome = "error"
             /\ flow'[f].message = "No workspace folder open"
             /\ flow'[f].candidates = <<>> /\ flow'[f].configs = <<>>
             /\ flow'[f].accounts = <<>> /\ flow'[f].fullDbtPath = <<>>
             /\ flow'[f].created = <<>>
             /\ UNCHANGED <<profileConfigs, environments, dbtProjectPath,
                            snowflakeAccounts, outputChannel, terminal>>]_vars

\* run-lint was started with accounts configured and no workspace folder
C19_Witness ==
    \E f \in Flows :
        /\ flow[f].kind = "lint" /\ flow[f].pc = "done"
        /\ flow[f].outcome = "error"
        /\ workspaceFolders = <<>>
        /\ snowflakeAccounts # <<>>

\* C20: dismissing a prompt of run-command, run-evaluator, setup-project or
\* run-lint (target, sub-command, extra arguments, package group, account,
\* passphrase) ends the flow at that step with nothing shown: no further
\* prompt, no notification, no terminal created, no command sent, nothing
\* written to the output channel.
C20_DismissedPromptAborts ==
    [][\A f \in Flows :
          (\/ RunPickEnvironment(f, Undefined) \/ RunPickCommand(f, Undefined)
           \/ RunAdditionalParams(f, Undefined) \/ RunPassphrase(f, Undefined)
           \/ SetupPickCicd(f, "dismissed")
           \/ LintPickAccount(f, Undefined) \/ LintPassphrase(f, Undefined))
          => /\ flow'[f].pc = "done"
             /\ flow'[f].message = NoMessage
             /\ flow'[f].created = <<>>
             /\ flow'[f].fullCommand = <<>>
             /\ UNCHANGED <<terminal, outputChannel, profileConfigs>>]_vars

\* run-lint was dismissed at the passphrase of the account picked from two
C20_Witness ==
    \E f \in Flows :
        /\ flow[f].kind = "lint" /\ flow[f].pc = "done"
        /\ flow[f].outcome = "notfound" /\ flow[f].message = NoMessage
        /\ Len(snowflakeAccounts) = 2
        /\ flow[f].created = <<>>

\* a profile that an add flow stored and that is still in the list
AddedProfileStored ==
    \E g \in Flows :
        /\ flow[g].kind = "add"
        /\ flow[g].outcome \in {"added", "updated"}
        /\ \E i \in 1..Len(profileConfigs) : profileConfigs[i] = flow[g].newConfig

\* C21 as stated: run-lint resolves its credential from the profile list that
\* the add and remove flows maintain.  Started while a profile added by the
\* add flow is stored, it does not report that nothing is configured; and no
\* step of a lint flow creates a terminal while the profile list is empty.
C21_LintUsesProfileList ==
    [][\A f \in Flows :
          /\ (LintStart(f) /\ AddedProfileStored
                  => flow'[f].pc # "lintWarnNoAccounts")
          /\ ((/\ flow'[f].kind = "lint"
               /\ flow'[f].created # <<>>
               /\ (flow[f].kind # "lint" \/ flow[f].created = <<>>))
                  => profileConfigs # <<>>)]_vars

NoBackslash(s) == \A i \in 1..Len(s) : s[i] # "\\"

\* C22 as stated: in every environment handed to a terminal by run-command,
\* run-evaluator or run-lint, DBT_PVK_PATH holds no backslash and is the key
\* path of the resolved credential with every backslash made a forward slash.
C22_KeyPathForwardSlashes ==
    /\ \A i \in 1..Len(terminal) :
           /\ NoBackslash(terminal[i].env["DBT_PVK_PATH"])
           /\ \A j \in 1..Len(terminal[i].sent) :
                  NoBackslash(terminal[i].sent[j].env["DBT_PVK_PATH"])
    /\ \A f \in Flows :
           /\ (flow[f].kind \in {"run", "eval"} /\ flow[f].outcome = "sent"
                  => flow[f].env["DBT_PVK_PATH"] =
                         ForwardSlashes(flow[f].profileConfig[1].privateKeyPath))
           /\ \A i \in 1..Len(flow[f].created) :
                  flow[f].created[i].env # <<>>
                      => /\ NoBackslash(flow[f].created[i].env[1]["DBT_PVK_PATH"])
                         /\ flow[f].created[i].env[1]["DBT_PVK_PATH"] =
                                ForwardSlashes(
                                    flow[f].selectedAccount[1].privateKeyPath)

\* flow f hands a command to the runner's terminal in this step
HandsOff(f) ==
    /\ flow'[f] # flow[f]
    /\ flow'[f].kind \in {"run", "eval"}
    /\ flow'[f].outcome = "sent"

\* what the flow built and sent in this step
HandedOff(f) ==
    [text |-> flow'[f].fullCommand, cwd |-> flow'[f].fullDbtPath,
     env |-> flow'[f].env]

SetupPcs == {"pickCicd", "lockWait", "installWait", "depsWait"}

\* a setup flow starts in slot f in this step
SetupBegins(f) ==
    /\ flow'[f].kind = "setup"
    /\ flow'[f] # flow[f]
    /\ flow[f].pc \notin SetupPcs

\* C24: setup starts on its own only at the end of this chain, each link as
\* the program saw it: activation or a change of the workspace folders starts
\* the check only with the flag set and a folder open; the prompt is shown
\* only by such a check whose fs.stat found pyproject.toml in the first folder
\* it read; setup not invoked by the user starts only from the answer 'Yes'
\* to that prompt.  With the flag not set, activation starts nothing and a
\* change of the workspace folders changes no flow.
C24_AutoSetup ==
    /\ \A f \in Flows :
           flow[f] # IdleFlow
               => /\ autoSetupOnOpen /\ workspaceFolders # <<>>
                  /\ flow[f].pc = "autoStat"
                  /\ flow[f].workspaceRoot = workspaceFolders[1]
    /\ [][\A f \in Flows :
              /\ (flow'[f].pc = "autoStat" /\ flow'[f] # flow[f]
                      => /\ autoSetupOnOpen
                         /\ workspaceFolders' # <<>>
                         /\ workspaceFolders' # workspaceFolders
                         /\ flow'[f].workspaceRoot = workspaceFolders'[1])
              /\ (flow'[f].pc = "autoDetected" /\ flow'[f] # flow[f]
                      => /\ flow[f].pc = "autoStat"
                         /\ flow[f].workspaceRoot \in pyprojectToml)
              /\ (SetupBegins(f) /\ ~SetupStart(f)
                      => /\ flow[f].pc = "autoDetected"
                         /\ AutoAnswer(f, "Yes"))
              /\ (~autoSetupOnOpen /\ workspaceFolders' # workspaceFolders
                      => flow' = flow)]_vars

\* a setup that the user did not invoke shows its package-group prompt
C24_Witness ==
    \E f \in Flows :
        /\ flow[f].kind = "setup"
        /\ flow[f].auto
        /\ flow[f].pc = "pickCicd"

\* C25: an empty string submitted at the extra-arguments prompt of run-command
\* does not end the flow: the flow goes on to read the stored profiles, with
\* the empty string as its extra arguments, and a command line sent with them
\* ends with --target and the target, nothing after.  Of all answers to that
\* prompt only the dismissal ends the flow there.
C25_EmptyExtraArguments ==
    /\ [](\A f \in Flows :
             Sent(f) /\ flow[f].kind = "run" /\ flow[f].additionalParams = <<>>
                 => EndsWithTargetThen(Words(flow[f].fullCommand),
                                       flow[f].environment, <<>>))
    /\ [][\A f \in Flows :
              /\ (RunAdditionalParams(f, <<>>)
                      => /\ flow'[f].additionalParams = <<>>
                         /\ flow'[f].configs = profileConfigs
                         /\ flow'[f].pc \in {"warnNoConfigs", "warnNoMatch",
                                             "passphrase", "done"}
                         /\ (flow'[f].pc = "done" => flow'[f].outcome = "sent"))
              /\ (flow[f].pc = "additionalParams" /\ flow'[f].pc = "done"
                  /\ flow'[f].outcome # "sent"
                      => RunAdditionalParams(f, Undefined))]_vars

\* a command line was sent by run-command after an empty answer
C25_Witness ==
    \E f \in Flows :
        /\ Sent(f)
        /\ flow[f].kind = "run"
        /\ flow[f].additionalParams = <<>>

\* the list after a confirmed add of record r to list configs
AddConfirmed(configs, r) ==
    ApplyNewConfig(configs, FindIndex(configs, r.profileTarget), r)

C26_Records ==
    {ProfileConfig(name, user, <<"/", "keys">>, passphrase) :
        name \in {Dev, Prod, <<"qa">>}, user \in {<<"alice">>, <<"carol">>},
        passphrase \in {<<>>, <<"s3cret">>}}

\* C26: the write of an add flow that found its name stored and got 'Yes'
\* puts the new record where the record of that name was and changes nothing
\* else, the length included; the write of an add flow that found its name
\* not stored puts the new record after the last one and changes nothing
\* else.  A confirmed add of a record to a list that came from a confirmed
\* add of the same record leaves that list as it is.
C26_OverwriteOrAppend ==
    /\ [][\A f \in Flows :
              /\ (AddOverwrite(f, "Yes") =>
                     LET i == FindIndex(profileConfigs, flow[f].newConfig.profileTarget)
                     IN  /\ i > 0
                         /\ Len(profileConfigs') = Len(profileConfigs)
                         /\ profileConfigs'[i] = flow[f].newConfig
                         /\ \A j \in 1..Len(profileConfigs) :
                                j # i => profileConfigs'[j] = profileConfigs[j])
              /\ ((/\ flow[f].pc \in {"addInclude", "addPassphrase"}
                   /\ flow'[f].pc = "done" /\ flow'[f].outcome = "added")
                      => /\ FindIndex(profileConfigs,
                                      flow'[f].newConfig.profileTarget) = 0
                         /\ Len(profileConfigs') = Len(profileConfigs) + 1
                         /\ profileConfigs'[Len(profileConfigs')] = flow'[f].newConfig
                         /\ \A j \in 1..Len(profileConfigs) :
                                profileConfigs'[j] = profileConfigs[j])]_vars
    /\ [](\A r \in C26_Records :
             LET once == AddConfirmed(profileConfigs, r)
             IN  /\ AddConfirmed(once, r) = once
                 /\ Len(once) = IF FindIndex(profileConfigs, r.profileTarget) > 0
                                 THEN Len(profileConfigs)
                                 ELSE Len(profileConfigs) + 1)

\* the first of two stored records was overwritten in place
C26_Witness ==
    /\ flow[1].kind = "add" /\ flow[1].pc = "done" /\ flow[1].outcome = "updated"
    /\ Len(profileConfigs) = 2
    /\ profileConfigs[1] = flow[1].newConfig

\* C27: once the package-group prompt of a setup flow has been answered, the
\* flow ends with the last progress report 'Complete!' and the message that
\* setup is complete, whether the commands it sent are still running, have
\* ended or have failed; and a flow that ended so has sent all three
\* commands, each to a terminal of its own, in their order.
C27_SetupCompletes ==
    /\ \A f \in Flows :
           (flow[f].kind = "setup"
            /\ flow[f].pc \in {"lockWait", "installWait", "depsWait"})
           ~> (/\ flow[f].kind = "setup" /\ flow[f].pc = "done"
               /\ flow[f].outcome = "complete"
               /\ flow[f].message = "DBT project setup complete!"
               /\ flow[f].progress[Len(flow[f].progress)] = Report(100, "Complete!"))
    /\ [](\A f \in Flows :
             flow[f].kind = "setup" /\ flow[f].outcome = "complete"
                 => /\ Len(flow[f].created) = 3
                    /\ flow[f].created[1].sent = <<PoetryLock>>
                    /\ flow[f].created[2].sent \in
                           {<<PoetryInstall>>, <<PoetryInstallCicd>>}
                    /\ flow[f].created[3].sent = <<DbtDeps>>)

\* setup was reported complete although its first command had failed and its
\* last one was still running
C27_Witness ==
    \E f \in Flows :
        /\ flow[f].kind = "setup" /\ flow[f].outcome = "complete"
        /\ flow[f].created[1].failed
        /\ flow[f].created[3].running

\* the stored record of a name: <<>> or <<the record>>
Stored(configs, name) ==
    LET hits == {i \in 1..Len(configs) : configs[i].profileTarget = name}
    IN  IF hits = {} THEN <<>>
        ELSE <<configs[CHOOSE i \in hits : \A j \in hits : i <= j]>>

StoredNames(configs) == {configs[i].profileTarget : i \in 1..Len(configs)}

\* C28 as stated: the write of an add flow that waited at its overwrite
\* question, or of a remove flow that waited at its selection or confirmation,
\* leaves what the store holds for every name but the flow's own as it was
\* just before, whatever other flows have written since the flow read the
\* list.
C28_NoLostUpdate ==
    [][\A f \in Flows :
          (AddOverwrite(f, "Yes") \/ RemoveConfirm(f, "Yes")) =>
              LET own == IF flow[f].kind = "add"
                         THEN flow[f].newConfig.profileTarget
                         ELSE flow[f].selected
              IN  \A name \in (StoredNames(profileConfigs)
                                \cup StoredNames(profileConfigs')) \ {own} :
                      Stored(profileConfigs', name) = Stored(profileConfigs, name)]_vars

NonEmptyPassphrase(env) == env["DBT_PVK_PASS"] \notin {<<>>, Undefined}

\* C29: the environment built by every hand-off of run-command and
\* run-evaluator, and the environment of every terminal the runner created,
\* has a non-empty DBT_PVK_PASS; an empty answer at the passphrase prompt of a
\* profile stored without passphrase ends the flow as not found and hands
\* nothing to the terminal.
C29_PassphraseNeverEmpty ==
    /\ [](\A i \in 1..Len(terminal) :
             /\ NonEmptyPassphrase(terminal[i].env)
             /\ \A j \in 1..Len(terminal[i].sent) :
                    NonEmptyPassphrase(terminal[i].sent[j].env))
    /\ [](\A f \in Flows : Sent(f) => NonEmptyPassphrase(flow[f].env))
    /\ [][\A f \in Flows :
              (flow[f].matchingConfig # <<>> /\ RunPassphrase(f, <<>>))
                  => /\ flow[f].matchingConfig[1].privateKeyPassphrase = <<>>
                     /\ flow'[f].pc = "done"
                     /\ flow'[f].outcome = "notfound"
                     /\ terminal' = terminal]_vars

\* the evaluator was handed off with a passphrase typed at the prompt
C29_Witness ==
    \E f \in Flows :
        /\ Sent(f)
        /\ flow[f].kind = "eval"
        /\ flow[f].matchingConfig[1].privateKeyPassphrase = <<>>
        /\ flow[f].env["DBT_PVK_PASS"] = <<"pw2">>

\* C30: the target of a run-command or run-evaluator flow is set once, by the
\* pick at the target prompt, to one of the labels the flow read from the
\* settings when it showed that prompt.  Every command line the flow sends
\* names that target after --target, and the environment it sends is built
\* from the record of that name in the profile list the flow read.  So no
\* record of another name, in the label list or not, is used.
C30_TargetIsPickedLabel ==
    /\ [](\A f \in Flows : Sent(f) =>
             /\ EndsWithTargetThen(Words(flow[f].fullCommand), flow[f].environment,
                                   Words(Trim(flow[f].additionalParams)))
             /\ flow[f].profileConfig[1].profileTarget = flow[f].environment
             /\ \E i \in 1..Len(flow[f].configs) :
                    /\ flow[f].configs[i].profileTarget = flow[f].environment
                    /\ flow[f].env["DBT_USER"] = flow[f].configs[i].user
                    /\ flow[f].env["DBT_PVK_PATH"] =
                           ForwardSlashes(flow[f].configs[i].privateKeyPath))
    /\ [][\A f \in Flows :
              /\ (flow'[f].pc = "pickEnvironment" /\ flow'[f] # flow[f]
                      => flow'[f].candidates = environments)
              /\ (flow[f].pc = "pickEnvironment" /\ flow'[f].pc = "pickEnvironment"
                      => flow'[f].candidates = flow[f].candidates)
              /\ (flow'[f].kind \in {"run", "eval"}
                  /\ flow'[f].environment # <<>>
                  /\ flow'[f].environment # flow[f].environment
                      => /\ flow[f].pc = "pickEnvironment"
                         /\ \E i \in 1..Len(flow[f].candidates) :
                                flow[f].candidates[i] = flow'[f].environment)]_vars

\* a command line for dev was sent after dev had been taken off the label list
C30_Witness ==
    \E f \in Flows :
        /\ Sent(f)
        /\ flow[f].environment = Dev
        /\ environments = <<Prod, <<"qa">>>>

====
